---- MODULE Spec2Model ----
(***************************************************************************)
(* Model of the GoingSecure cipher library: DES (simplified Feistel),      *)
(* CesarEncryption, XOREncoder, Vigenere, AsciiBinary, CryptoGenerator     *)
(* (hex / Base64 codecs) and the bitset <-> string helpers of utils.cpp.   *)
(*                                                                         *)
(* Conventions                                                             *)
(*  - a std::string / std::vector<uint8_t> is a sequence of byte values    *)
(*    0..255 (the value of the byte read as unsigned char);                *)
(*  - a std::bitset<N> is a sequence of N bits, element i+1 being bit i    *)
(*    (bitset::operator[](i)), so to_ullong() is sum of bit i * 2^i;       *)
(*  - ret holds the pending result of the last call, Idle when none;        *)
(*  - menu is the state of the loop of main().                             *)
(***************************************************************************)
EXTENDS Integers, Sequences, FiniteSets, TLC

VARIABLES des, vig, gen, ret, menu

vars == <<des, vig, gen, ret, menu>>

(***************************************************************************)
(* Bounds of the model.                                                    *)
(***************************************************************************)
MaxTextLen == 2
MaxBytesLen == 4
MaxSubkeyCalls == 2
MaxMenuRounds == 3

(***************************************************************************)
(* Language-level helpers.                                                 *)
(***************************************************************************)

\* Materialises a function over 1..n as a tuple (a value, not a closure).
AsTuple(f) == f \o <<>>

\* bitset::operator[](i)
Bit(b, i) == b[i + 1]

\* C++ '%' on int: the remainder has the sign of the dividend.
CRem(a, n) ==
  IF a >= 0 \/ a % n = 0 THEN a % n ELSE (a % n) - n

\* Bits 0..n-1 of a non-negative value (std::bitset<n>(value)).
ToBits(value, n) == AsTuple([k \in 1..n |-> (value \div (2 ^ (k - 1))) % 2])

\* The bitset<n> with every bit equal to b.
Fill(n, b) == AsTuple([k \in 1..n |-> b])

\* bitset::to_ulong() for short bitsets.
RECURSIVE FromBits(_)
FromBits(b) ==
  IF b = <<>> THEN 0
  ELSE b[1] + 2 * FromBits(Tail(b))

\* operator^ on two bits / on two bitsets of the same width.
XorBit(a, b) == (a + b) % 2
XorBits(a, b) == AsTuple([k \in 1..Len(a) |-> XorBit(a[k], b[k])])

\* operator^ and operator| on bytes and small unsigned values.
XorByte(a, b) == FromBits(XorBits(ToBits(a, 8), ToBits(b, 8)))
OrBits(a, b) == AsTuple([k \in 1..Len(a) |-> IF a[k] + b[k] > 0 THEN 1 ELSE 0])
OrBitAt(a, b, k) ==
  IF ((a \div (2 ^ k)) % 2) + ((b \div (2 ^ k)) % 2) > 0 THEN 2 ^ k ELSE 0
\* a | b for a below 2^30 and a byte b: the bits above the low eight are
\* those of a.
OrU32(a, b) ==
  IF b < 256
  THEN (a \div 256) * 256
         + OrBitAt(a, b, 0) + OrBitAt(a, b, 1) + OrBitAt(a, b, 2)
         + OrBitAt(a, b, 3) + OrBitAt(a, b, 4) + OrBitAt(a, b, 5)
         + OrBitAt(a, b, 6) + OrBitAt(a, b, 7)
  ELSE FromBits(OrBits(ToBits(a, 30), ToBits(b, 30)))

\* A 64-bit word written as 16 hexadecimal digits, most significant first.
HexBits(h) ==
  AsTuple([k \in 1..(4 * Len(h)) |->
     LET i == k - 1
         d == h[Len(h) - (i \div 4)]
     IN (d \div (2 ^ (i % 4))) % 2])

\* All byte strings over alphabet A of length 0..n.
StringsUpTo(A, n) == UNION {[1..m -> A] : m \in 0..n}

Idle == [op |-> "idle"]

(***************************************************************************)
(* DES.h                                                                   *)
(***************************************************************************)
EXPANSION_TABLE ==
  << 32, 1, 2, 3, 4, 5,
      4, 5, 6, 7, 8, 9,
      8, 9,10,11,12,13,
     12,13,14,15,16,17,
     16,17,18,19,20,21,
     20,21,22,23,24,25,
     24,25,26,27,28,29,
     28,29,30,31,32, 1 >>

P_TABLE ==
  << 16, 7,20,21,29,12,28,17,
      1,15,23,26, 5,18,31,10,
      2, 8,24,14,32,27, 3, 9,
     19,13,30, 6,22,11, 4,25 >>

SBOX ==
  << <<14, 4,13, 1, 2,15,11, 8, 3,10, 6,12, 5, 9, 0, 7>>,
     << 0,15, 7, 4,14, 2,13, 1,10, 6,12,11, 9, 5, 3, 8>>,
     << 4, 1,14, 8,13, 6, 2,11,15,12, 9, 7, 3,10, 5, 0>>,
     <<15,12, 8, 2, 4, 9, 1, 7, 5,11, 3,14,10, 0, 6,13>> >>

\* The 16 subkeys pushed by one call: (key >> i) & 0xFFFFFFFFFFFF, i = 0..15.
generateSubkeys(key) ==
  [r \in 1..16 |-> AsTuple([k \in 1..48 |-> Bit(key, (r - 1) + (k - 1))])]

iPermutation(input) == AsTuple([k \in 1..64 |-> Bit(input, k - 1)])

expand(halfBlock) ==
  AsTuple([k \in 1..48 |-> Bit(halfBlock, 32 - EXPANSION_TABLE[k])])

\* A plausible slip: the four bits of the S-box value least significant first.
substitute_lsb(input) ==
  AsTuple([k \in 1..32 |->
     LET i == (k - 1) \div 4
         j == (k - 1) % 4
         row == Bit(input, i * 6) * 2 + Bit(input, i * 6 + 5)
         col == Bit(input, i * 6 + 1) * 8 + Bit(input, i * 6 + 2) * 4
                  + Bit(input, i * 6 + 3) * 2 + Bit(input, i * 6 + 4)
         sboxValue == SBOX[(row % 4) + 1][(col % 16) + 1]
     IN (sboxValue \div (2 ^ j)) % 2])

substitute(input) ==
  AsTuple([k \in 1..32 |->
     LET i == (k - 1) \div 4
         j == (k - 1) % 4
         row == Bit(input, i * 6) * 2 + Bit(input, i * 6 + 5)
         col == Bit(input, i * 6 + 1) * 8 + Bit(input, i * 6 + 2) * 4
                  + Bit(input, i * 6 + 3) * 2 + Bit(input, i * 6 + 4)
         sboxValue == SBOX[(row % 4) + 1][(col % 16) + 1]
     IN (sboxValue \div (2 ^ (3 - j))) % 2])

permuteP(input) ==
  AsTuple([k \in 1..32 |-> Bit(input, 32 - P_TABLE[k])])

feistel(right, subkey) ==
  permuteP(substitute(XorBits(expand(right), subkey)))

fPermutation(input) == AsTuple([k \in 1..64 |-> Bit(input, k - 1)])

\* The round loop of encode: rounds round..15, returning <<left, right>>.
RECURSIVE EncodeRounds(_, _, _, _)
EncodeRounds(round, left, right, subkeys) ==
  IF round = 16 THEN <<left, right>>
  ELSE LET newRight == XorBits(left, feistel(right, subkeys[round + 1]))
       IN EncodeRounds(round + 1, right, newRight, subkeys)

\* A plausible slip: the usual final swap, (left << 32) | right.
DES_combine_swapped(left, right) == right \o left

\* combined = (right << 32) | left, as a bitset<64>: bits 0..31 are left.
DES_combine(left, right) == left \o right

\* DES::encode on an object whose subkey list is subkeys (16 entries read).
DES_encode(subkeys, plaintext) ==
  LET data == iPermutation(plaintext)
      left == SubSeq(data, 33, 64)
      right == SubSeq(data, 1, 32)
      fin == EncodeRounds(0, left, right, subkeys)
  IN fPermutation(DES_combine(fin[1], fin[2]))

\* DES decode as the specification words it, with the block split the same
\* way encode splits it (L = high 32 bits, R = low 32 bits):
\* for round = 15..0, R' = L, L' = R XOR Feistel(L, subkey[round]).
RECURSIVE DecodeRounds(_, _, _, _)
DecodeRounds(round, L, R, subkeys) ==
  IF round = 0 THEN <<L, R>>
  ELSE LET newL == XorBits(R, feistel(L, subkeys[round]))
       IN DecodeRounds(round - 1, newL, L, subkeys)

\* combine as (L << 32) | R : bits 0..31 are R.
DES_decode_highlow(subkeys, ciphertext) ==
  LET L == SubSeq(ciphertext, 33, 64)
      R == SubSeq(ciphertext, 1, 32)
      fin == DecodeRounds(16, L, R, subkeys)
  IN fin[2] \o fin[1]

\* The same rounds and combine, with the halves taken as encode stored them:
\* encode returns (R_final << 32) | L_final, so L = low 32 bits, R = high.
DES_decode(subkeys, ciphertext) ==
  LET L == SubSeq(ciphertext, 1, 32)
      R == SubSeq(ciphertext, 33, 64)
      fin == DecodeRounds(16, L, R, subkeys)
  IN fin[2] \o fin[1]

\* Inputs of the DES model.
DESKeys ==
  { HexBits(<<1,3,3,4,5,7,7,9,9,11,11,12,13,15,15,1>>),
    HexBits(<<0,0,0,0,0,0,0,0,0,0,0,0,0,0,0,0>>),
    HexBits(<<15,15,15,15,15,15,15,15,15,15,15,15,15,15,15,15>>),
    HexBits(<<0,1,2,3,4,5,6,7,8,9,10,11,12,13,14,15>>) }

DESBlocks ==
  { HexBits(<<1,2,3,4,5,6,7,8,9,10,11,12,13,14,15,1>>),
    HexBits(<<0,0,0,0,0,0,0,0,0,0,0,0,0,0,0,0>>),
    HexBits(<<0,0,0,0,0,0,0,0,0,0,0,0,0,0,0,1>>),
    HexBits(<<8,0,0,0,0,0,0,0,0,0,0,0,0,0,0,0>>),
    HexBits(<<15,15,15,15,15,15,15,15,0,0,0,0,0,0,0,0>>),
    HexBits(<<0,0,0,0,0,0,0,0,15,15,15,15,15,15,15,15>>),
    HexBits(<<15,15,15,15,15,15,15,15,15,15,15,15,15,15,15,15>>),
    HexBits(<<13,14,10,13,11,14,14,15,12,10,15,14,11,10,11,14>>) }

\* What a read past the end of the subkey vector can yield.
StraySubkeys == { Fill(48, 0), Fill(48, 1) }

NoObject == [state |-> "none"]

\* DES() = default : key is the zero bitset, no subkeys.
DESDefault ==
  /\ ret = Idle
  /\ des' = [state |-> "live", key |-> Fill(64, 0), subkeys |-> <<>>]
  /\ ret' = [op |-> "DES()"]
  /\ UNCHANGED <<vig, gen, menu>>

\* DES(key) : stores the key and calls generateSubkeys().
DESConstruct ==
  /\ ret = Idle
  /\ \E key \in DESKeys :
        /\ des' = [state |-> "live", key |-> key,
                   subkeys |-> generateSubkeys(key)]
        /\ ret' = [op |-> "DES(key)", key |-> key]
  /\ UNCHANGED <<vig, gen, menu>>

\* The public generateSubkeys(): pushes 16 more entries.
DESGenerateSubkeys ==
  /\ ret = Idle
  /\ des.state = "live"
  /\ Len(des.subkeys) + 16 <= 16 * MaxSubkeyCalls
  /\ des' = [des EXCEPT !.subkeys = @ \o generateSubkeys(des.key)]
  /\ ret' = [op |-> "DES.generateSubkeys"]
  /\ UNCHANGED <<vig, gen, menu>>

\* encode(plaintext): reads subkeys[0..15]; a read past the end of the
\* vector is undefined (a crash, or whatever lies behind the buffer).
DESEncode ==
  /\ ret = Idle
  /\ des.state = "live"
  /\ \E plaintext \in DESBlocks :
       IF Len(des.subkeys) >= 16
       THEN ret' = [op |-> "DES.encode", status |-> "ok", block |-> plaintext,
                    value |-> DES_encode(des.subkeys, plaintext)]
       ELSE \/ ret' = [op |-> "DES.encode", status |-> "crash",
                       block |-> plaintext]
            \/ \E stray \in StraySubkeys :
                 ret' = [op |-> "DES.encode", status |-> "stray",
                         block |-> plaintext,
                         value |-> DES_encode(
                            [r \in 1..16 |-> IF r <= Len(des.subkeys)
                                             THEN des.subkeys[r] ELSE stray],
                            plaintext)]
  /\ UNCHANGED <<des, vig, gen, menu>>

\* The caller takes the result (main.cpp prints it) and goes on.
Consume ==
  /\ ret # Idle
  /\ ret' = Idle
  /\ UNCHANGED <<des, vig, gen, menu>>

(***************************************************************************)
(* CesarEncryption.h                                                       *)
(***************************************************************************)

\* The largest value of the int parameter desplazamiento.
IntMax == 2147483647
IntMin == (-IntMax) - 1

\* c - base + desplazamiento leaves the range of int (signed overflow).
AddOverflows(x, k) == k > IntMax - x

\* x + k in int arithmetic, x in 0..25; on overflow the two's-complement
\* result x + k - 2^32.
AddInt(x, k) ==
  IF AddOverflows(x, k)
  THEN (((k - IntMax) + (x - 1)) - IntMax) - 1
  ELSE x + k

\* One iteration of the loop of encode.
Cesar_encodeChar(c, k) ==
  IF c >= 65 /\ c <= 90 THEN CRem(AddInt(c - 65, k), 26) + 65
  ELSE IF c >= 97 /\ c <= 122 THEN CRem(AddInt(c - 97, k), 26) + 97
  ELSE IF c >= 48 /\ c <= 57 THEN CRem(AddInt(c - 48, k), 10) + 48
  ELSE c

\* encode(texto, desplazamiento), int arithmetic wrapping on overflow.
Cesar_encode(texto, k) ==
  AsTuple([i \in 1..Len(texto) |-> Cesar_encodeChar(texto[i], k)])

\* Some character of texto makes the addition overflow.
Cesar_overflows(texto, k) ==
  \E i \in 1..Len(texto) :
     \/ texto[i] >= 65 /\ texto[i] <= 90 /\ AddOverflows(texto[i] - 65, k)
     \/ texto[i] >= 97 /\ texto[i] <= 122 /\ AddOverflows(texto[i] - 97, k)
     \/ texto[i] >= 48 /\ texto[i] <= 57 /\ AddOverflows(texto[i] - 48, k)

\* A plausible slip: the shift is not reduced before the subtraction.
Cesar_decode_unreduced(texto, k) == Cesar_encode(texto, 26 - k)

\* decode(texto, desplazamiento) = encode(texto, 26 - (desplazamiento % 26))
Cesar_decode(texto, k) == Cesar_encode(texto, 26 - CRem(k, 26))

\* 'A' 'B' 'Z' 'a' 'z' '0' '9' ' ' and a byte above 0x7F
CesarBytes == {65, 66, 90, 97, 122, 48, 57, 32, 200}
\* "Hola Mundo", "abc123"
CesarHola == <<72, 111, 108, 97, 32, 77, 117, 110, 100, 111>>
CesarAbc == <<97, 98, 99, 49, 50, 51>>
CesarTexts == StringsUpTo(CesarBytes, MaxTextLen) \cup {CesarHola, CesarAbc}
CesarShifts ==
  {0, 1, 3, 4, 5, 25, 26, 27, 52, 104, 129, 130, IntMax - 25, IntMax}

\* A call of encode; signed overflow is undefined: the build either wraps
\* (status "overflow") or traps (status "crash").
CesarEncode ==
  /\ ret = Idle
  /\ \E texto \in CesarTexts, k \in CesarShifts :
       IF Cesar_overflows(texto, k)
       THEN \/ ret' = [op |-> "Cesar.encode", status |-> "crash",
                       texto |-> texto, k |-> k]
            \/ ret' = [op |-> "Cesar.encode", status |-> "overflow",
                       texto |-> texto, k |-> k,
                       value |-> Cesar_encode(texto, k)]
       ELSE ret' = [op |-> "Cesar.encode", status |-> "ok",
                    texto |-> texto, k |-> k,
                    value |-> Cesar_encode(texto, k)]
  /\ UNCHANGED <<des, vig, gen, menu>>

\* A call of decode; 26 - (k % 26) is in 1..26, so nothing overflows.
CesarDecode ==
  /\ ret = Idle
  /\ \E texto \in CesarTexts, k \in CesarShifts :
       ret' = [op |-> "Cesar.decode", status |-> "ok",
               texto |-> texto, k |-> k,
               value |-> Cesar_decode(texto, k)]
  /\ UNCHANGED <<des, vig, gen, menu>>

\* frecuencias[i] after the tally: the letters of texto, either case, whose
\* index is i.
Cesar_frecuencia(texto, i) ==
  Cardinality({n \in 1..Len(texto) :
                 \/ (texto[n] >= 97 /\ texto[n] <= 122 /\ texto[n] - 97 = i)
                 \/ (texto[n] >= 65 /\ texto[n] <= 90 /\ texto[n] - 65 = i)})

\* indiceMax after the iterations lo..hi of the loop, entered with the given
\* indiceMax: it moves only to a strictly larger frequency.  The iterations
\* run in order (first the lower half, then, with the index that half
\* leaves, the upper half; the one-element sets make the lower half a value
\* before the upper half starts).
RECURSIVE Cesar_indiceMaxLoop(_, _, _, _)
Cesar_indiceMaxLoop(texto, indiceMax, lo, hi) ==
  IF lo = hi
  THEN IF Cesar_frecuencia(texto, lo) > Cesar_frecuencia(texto, indiceMax)
       THEN lo ELSE indiceMax
  ELSE LET mid == (lo + hi) \div 2
       IN CHOOSE after \in
            { Cesar_indiceMaxLoop(texto, lower, mid + 1, hi) :
                lower \in { Cesar_indiceMaxLoop(texto, indiceMax, lo, mid) } } :
            TRUE

\* int indiceMax = 0; for (int i = 1; i < 26; ++i) ...
Cesar_indiceMax(texto) == Cesar_indiceMaxLoop(texto, 0, 1, 25)

\* 'e', 'a', 'o', 's', 'r', 'n', 'i', 'd', 'l', 'c'
letrasEsp == <<101, 97, 111, 115, 114, 110, 105, 100, 108, 99>>

\* "el", "de", "la", "que", "en", "y", "los", "se"
comunes ==
  << <<101, 108>>,
     <<100, 101>>,
     <<108, 97>>,
     <<113, 117, 101>>,
     <<101, 110>>,
     <<121>>,
     <<108, 111, 115>>,
     <<115, 101>> >>

\* s.find(w) != std::string::npos
Contains(s, w) ==
  \E p \in 1..(Len(s) - Len(w) + 1) : SubSeq(s, p, p + Len(w) - 1) = w

\* puntaje after the loop over comunes: one point for every word found.
Cesar_puntaje(descifrado) ==
  Cardinality({w \in 1..Len(comunes) : Contains(descifrado, comunes[w])})

\* A plausible slip: the candidate key without the + 26.
Cesar_clave_no26(indiceMax, letraRef) ==
  CRem(indiceMax - (letraRef - 97), 26)

\* clave = (indiceMax - (letraRef - 'a') + 26) % 26
Cesar_clave(indiceMax, letraRef) ==
  CRem((indiceMax - (letraRef - 97)) + 26, 26)

\* mejorClave and mejorPuntaje after the first n reference letters.
RECURSIVE Cesar_mejor(_, _, _)
Cesar_mejor(texto, indiceMax, n) ==
  IF n = 0 THEN [mejorClave |-> 0, mejorPuntaje |-> -1]
  ELSE LET mejor == Cesar_mejor(texto, indiceMax, n - 1)
           clave == Cesar_clave(indiceMax, letrasEsp[n])
           puntaje == Cesar_puntaje(Cesar_encode(texto, 26 - clave))
       IN IF puntaje > mejor.mejorPuntaje
          THEN [mejorClave |-> clave, mejorPuntaje |-> puntaje]
          ELSE mejor

\* evaluatePossibleKey(texto): mejorClave after the loop over letrasEsp.
evaluatePossibleKey(texto) ==
  CHOOSE mejorClave \in
    { Cesar_mejor(texto, indiceMax, Len(letrasEsp)).mejorClave :
        indiceMax \in { Cesar_indiceMax(texto) } } : TRUE

\* The message of testCesar() in main.cpp.
CesarMensaje ==
  <<66, 105, 101, 110, 118, 101, 110, 105, 100, 111, 115, 32, 97, 32, 108,
    97, 32, 99, 108, 97, 115, 101, 32, 100, 101, 32, 115, 101, 103, 117,
    114, 105, 100, 97, 100, 32, 112, 97, 114, 97, 32, 118, 105, 100, 101,
    111, 106, 117, 101, 103, 111, 115, 46, 32, 69, 110, 32, 101, 115, 116,
    97, 32, 109, 97, 116, 101, 114, 105, 97, 44, 32, 97, 112, 114, 101, 110,
    100, 101, 114, 97, 110, 32, 97, 32, 99, 105, 102, 114, 97, 114, 32, 109,
    101, 110, 115, 97, 106, 101, 115, 32, 121, 32, 100, 101, 115, 99, 105,
    102, 114, 97, 114, 32, 99, 111, 100, 105, 103, 111, 115, 32, 111, 99,
    117, 108, 116, 111, 115>>

\* 'e' 'l' 'y' 'E' ' ' '1'; "alal", "elle", "Ipmb", "el de la", and the
\* ciphertext of testCesar().
EvalTexts ==
  StringsUpTo({101, 108, 121, 69, 32, 49}, MaxTextLen)
    \cup { <<97, 108, 97, 108>>,
           <<101, 108, 108, 101>>,
           <<73, 112, 109, 98>>,
           <<101, 108, 32, 100, 101, 32, 108, 97>>,
           Cesar_encode(CesarMensaje, 4) }

CesarEvaluatePossibleKey ==
  /\ ret = Idle
  /\ \E texto \in EvalTexts :
       ret' = [op |-> "Cesar.evaluatePossibleKey", status |-> "ok",
               texto |-> texto, value |-> evaluatePossibleKey(texto)]
  /\ UNCHANGED <<des, vig, gen, menu>>

(***************************************************************************)
(* XOREncoder.h                                                            *)
(***************************************************************************)

\* A plausible slip: '|' in place of '^'.
XOR_encode_or(input, key) ==
  AsTuple([i \in 1..Len(input) |->
     OrU32(input[i], key[((i - 1) % Len(key)) + 1])])

\* encode(input, key) for a key of size > 0 (or an empty input).
XOR_encode(input, key) ==
  AsTuple([i \in 1..Len(input) |->
     XorByte(input[i], key[((i - 1) % Len(key)) + 1])])

\* 0x00 'H' 'c' 0xFF
XorBytes == {0, 72, 99, 255}
XorInputs == StringsUpTo(XorBytes, MaxTextLen + 1)
XorKeys == StringsUpTo({0, 99, 255}, MaxTextLen)

\* What key[i % 0] can yield where the division does not trap.
StrayBytes == {0, 170}

\* A call of encode.  With an empty key and a non-empty input the loop
\* evaluates i % key.size() with key.size() = 0, which is undefined: the
\* division traps (status "crash") or the read is a stray one.
XOREncode ==
  /\ ret = Idle
  /\ \E input \in XorInputs, key \in XorKeys :
       IF key = <<>> /\ input # <<>>
       THEN \/ ret' = [op |-> "XOR.encode", status |-> "crash",
                       input |-> input, key |-> key]
            \/ \E stray \in StrayBytes :
                 ret' = [op |-> "XOR.encode", status |-> "stray",
                         input |-> input, key |-> key,
                         value |-> XOR_encode(input, <<stray>>)]
       ELSE ret' = [op |-> "XOR.encode", status |-> "ok",
                    input |-> input, key |-> key,
                    value |-> XOR_encode(input, key)]
  /\ UNCHANGED <<des, vig, gen, menu>>

(***************************************************************************)
(* AsciiBinary.h                                                           *)
(***************************************************************************)

\* std::isspace in the "C" locale: '\t' '\n' '\v' '\f' '\r' ' '.
IsSpace(c) == c \in (9..13) \cup {32}

\* A plausible slip: filling result[7 - i], least significant bit first.
Ascii_bitset_lsb(c) == AsTuple([k \in 1..8 |-> 48 + ((c \div (2 ^ (k - 1))) % 2)])

\* bitset(c): eight characters '0'/'1', result[0] the most significant bit.
Ascii_bitset(c) == AsTuple([k \in 1..8 |-> 48 + ((c \div (2 ^ (8 - k))) % 2)])

\* The ostringstream of stringToBinary: every group followed by one space.
RECURSIVE Ascii_groups(_)
Ascii_groups(input) ==
  IF input = <<>> THEN <<>>
  ELSE Ascii_bitset(Head(input)) \o <<32>> \o Ascii_groups(Tail(input))

\* stringToBinary(input): the groups, the last space popped.
stringToBinary(input) ==
  LET output == Ascii_groups(input)
  IN IF output # <<>> THEN SubSeq(output, 1, Len(output) - 1) ELSE output

\* The int value of a char holding the byte c: char is signed, so a byte
\* of 0x80 or more is negative.
CharValue(c) == IF c >= 128 THEN c - 256 ELSE c

\* The loop of binaryToChar(binary): value = value * 2 + (bit - '0'), bit a
\* char.
RECURSIVE Ascii_value(_, _)
Ascii_value(binary, value) ==
  IF binary = <<>> THEN value
  ELSE Ascii_value(Tail(binary), value * 2 + (CharValue(Head(binary)) - 48))

\* binaryToChar(binary): the value cast to char, as a byte.

binaryToChar(binary) == Ascii_value(binary, 0) % 256

\* The tokens that 'iss >> binary' extracts: maximal runs of non-space.
RECURSIVE Ascii_tokens(_, _)
Ascii_tokens(s, cur) ==
  IF s = <<>> THEN (IF cur = <<>> THEN <<>> ELSE <<cur>>)
  ELSE IF IsSpace(Head(s))
       THEN (IF cur = <<>> THEN <<>> ELSE <<cur>>) \o Ascii_tokens(Tail(s), <<>>)
       ELSE Ascii_tokens(Tail(s), Append(cur, Head(s)))

\* binaryToString(binaryInput)
binaryToString(binaryInput) ==
  LET toks == Ascii_tokens(binaryInput, <<>>)
  IN AsTuple([i \in 1..Len(toks) |-> binaryToChar(toks[i])])

\* NUL, tab, space, 'A', 0x80, 0xFF
AsciiBytes == {0, 9, 32, 65, 128, 255}
AsciiTexts == StringsUpTo(AsciiBytes, MaxTextLen)
\* '0' '1' ' '; tokens that hold a byte above 0x7F: 0xFF, 0x80 '1'
BinaryInputs ==
  StringsUpTo({48, 49, 32}, MaxTextLen + 2) \cup { <<255>>, <<128, 49>> }

AsciiStringToBinary ==
  /\ ret = Idle
  /\ \E input \in AsciiTexts :
       ret' = [op |-> "stringToBinary", status |-> "ok", input |-> input,
               value |-> stringToBinary(input)]
  /\ UNCHANGED <<des, vig, gen, menu>>

AsciiBinaryToString ==
  /\ ret = Idle
  /\ \E binaryInput \in BinaryInputs :
       ret' = [op |-> "binaryToString", status |-> "ok",
               input |-> binaryInput,
               value |-> binaryToString(binaryInput)]
  /\ UNCHANGED <<des, vig, gen, menu>>

(***************************************************************************)
(* Vigenere.h                                                              *)
(***************************************************************************)

\* std::isupper / islower / isalpha / toupper in the "C" locale.
IsUpper(c) == c >= 65 /\ c <= 90
IsLower(c) == c >= 97 /\ c <= 122
IsAlpha(c) == IsUpper(c) \/ IsLower(c)
ToUpper(c) == IF IsLower(c) THEN c - 32 ELSE c

\* normalizeKey(rawKey): the letters of rawKey, upper-cased.
RECURSIVE normalizeKey(_)
normalizeKey(rawKey) ==
  IF rawKey = <<>> THEN <<>>
  ELSE IF IsAlpha(Head(rawKey))
       THEN <<ToUpper(Head(rawKey))>> \o normalizeKey(Tail(rawKey))
       ELSE normalizeKey(Tail(rawKey))

\* The number of letters among the first n characters of text: the value of
\* the key index i when character n + 1 is reached.
RECURSIVE LettersBefore(_, _)
LettersBefore(text, n) ==
  IF n = 0 THEN 0
  ELSE LettersBefore(text, n - 1) + (IF IsAlpha(text[n]) THEN 1 ELSE 0)

\* A plausible slip: the base is 'A' whatever the case of the letter.
Vigenere_encodeChar_upper(key, c, i) ==
  LET shift == key[(i % Len(key)) + 1] - 65
  IN CRem((c - 65) + shift, 26) + 65

\* The body of the loop of encode for a letter c at key index i.
Vigenere_encodeChar(key, c, i) ==
  LET base == IF IsLower(c) THEN 97 ELSE 65
      shift == key[(i % Len(key)) + 1] - 65
  IN CRem((c - base) + shift, 26) + base

\* A plausible slip: the subtraction without the + 26.
Vigenere_decodeChar_no26(key, c, i) ==
  LET base == IF IsLower(c) THEN 97 ELSE 65
      shift == key[(i % Len(key)) + 1] - 65
  IN CRem((c - base) - shift, 26) + base

\* The body of the loop of decode for a letter c at key index i.
Vigenere_decodeChar(key, c, i) ==
  LET base == IF IsLower(c) THEN 97 ELSE 65
      shift == key[(i % Len(key)) + 1] - 65
  IN CRem(((c - base) - shift) + 26, 26) + base

\* encode(text) / decode(text) on an object whose key is not empty.
Vigenere_encode(key, text) ==
  AsTuple([n \in 1..Len(text) |->
     IF IsAlpha(text[n])
     THEN Vigenere_encodeChar(key, text[n], LettersBefore(text, n - 1))
     ELSE text[n]])

Vigenere_decode(key, text) ==
  AsTuple([n \in 1..Len(text) |->
     IF IsAlpha(text[n])
     THEN Vigenere_decodeChar(key, text[n], LettersBefore(text, n - 1))
     ELSE text[n]])

\* text holds a letter, so the loop evaluates i % key.size().
HasLetter(text) == \E n \in 1..Len(text) : IsAlpha(text[n])

\* "", "123!", "a", "B", "zZ", "k1Y", "Limon!"
VigRawKeys ==
  { <<>>, <<49, 50, 51, 33>>, <<97>>, <<66>>, <<122, 90>>, <<107, 49, 89>>,
    <<76, 105, 109, 111, 110, 33>> }
\* 'A' 'Z' 'a' 'z' '.' ' ' and a byte above 0x7F
VigBytes == {65, 90, 97, 122, 46, 32, 200}
\* "Ataque al amanecer."
VigMensaje ==
  <<65, 116, 97, 113, 117, 101, 32, 97, 108, 32, 97, 109, 97, 110, 101,
    99, 101, 114, 46>>
VigTexts == StringsUpTo(VigBytes, MaxTextLen + 1) \cup {VigMensaje}

\* Vigenere() = default : the key member is the empty string.
VigenereDefault ==
  /\ ret = Idle
  /\ vig' = [state |-> "live", key |-> <<>>]
  /\ ret' = [op |-> "Vigenere()"]
  /\ UNCHANGED <<des, gen, menu>>

\* Vigenere(key) : key(normalizeKey(key)); the body tests the PARAMETER
\* key (it shadows the member), so only an empty raw key throws.
VigenereConstruct ==
  /\ ret = Idle
  /\ \E rawKey \in VigRawKeys :
       IF rawKey = <<>>
       THEN /\ ret' = [op |-> "Vigenere(key)", status |-> "throw",
                       rawKey |-> rawKey]
            /\ vig' = vig
       ELSE /\ ret' = [op |-> "Vigenere(key)", status |-> "ok",
                       rawKey |-> rawKey]
            /\ vig' = [state |-> "live", key |-> normalizeKey(rawKey)]
  /\ UNCHANGED <<des, gen, menu>>

\* The outcomes of encode/decode on the live object.  With an empty key a
\* letter makes the loop evaluate i % 0, which is undefined: the division
\* traps (status "crash") or the key read is a stray one.
VigenereOutcomes(op, text) ==
  IF vig.key = <<>> /\ HasLetter(text)
  THEN { [op |-> op, status |-> "crash", text |-> text] }
       \cup { [op |-> op, status |-> "stray", text |-> text,
               value |-> IF op = "Vigenere.encode"
                         THEN Vigenere_encode(<<stray>>, text)
                         ELSE Vigenere_decode(<<stray>>, text)] :
              stray \in StrayBytes }
  ELSE { [op |-> op, status |-> "ok", text |-> text,
          value |-> IF op = "Vigenere.encode"
                    THEN Vigenere_encode(vig.key, text)
                    ELSE Vigenere_decode(vig.key, text)] }

VigenereEncode ==
  /\ ret = Idle
  /\ vig.state = "live"
  /\ \E text \in VigTexts : ret' \in VigenereOutcomes("Vigenere.encode", text)
  /\ UNCHANGED <<des, vig, gen, menu>>

VigenereDecode ==
  /\ ret = Idle
  /\ vig.state = "live"
  /\ \E text \in VigTexts : ret' \in VigenereOutcomes("Vigenere.decode", text)
  /\ UNCHANGED <<des, vig, gen, menu>>

\* The word list of fitness:
\* " DE ", " LA ", " EL ", " QUE ", " Y ", " A ", " EN ", " UN ", " PARA ",
\* " CON ", " POR ", " COMO ", " SU ", " AL ", " DEL ", " LOS ", " SE ", "
\* NO ", " MAS ", " O ", " SI ", " YA ", " TODO ", " ESTA ", " HAY ", "
\* ESTO ", " SON ", " TIENE ", " HACE ", " SUS ", " VIDA ", " NOS ", " TE
\* ", " LO ", " ME ", " ESTE ", " ESA ", " ESE ", " BIEN ", " MUY ", "
\* PUEDE ", " TAMBIEN ", " AUN ", " MI ", " DOS ", " UNO ", " OTRO ", "
\* NUEVO ", " SIN ", " ENTRE ", " SOBRE "
Vigenere_comunes ==
  << <<32, 68, 69, 32>>,
     <<32, 76, 65, 32>>,
     <<32, 69, 76, 32>>,
     <<32, 81, 85, 69, 32>>,
     <<32, 89, 32>>,
     <<32, 65, 32>>,
     <<32, 69, 78, 32>>,
     <<32, 85, 78, 32>>,
     <<32, 80, 65, 82, 65, 32>>,
     <<32, 67, 79, 78, 32>>,
     <<32, 80, 79, 82, 32>>,
     <<32, 67, 79, 77, 79, 32>>,
     <<32, 83, 85, 32>>,
     <<32, 65, 76, 32>>,
     <<32, 68, 69, 76, 32>>,
     <<32, 76, 79, 83, 32>>,
     <<32, 83, 69, 32>>,
     <<32, 78, 79, 32>>,
     <<32, 77, 65, 83, 32>>,
     <<32, 79, 32>>,
     <<32, 83, 73, 32>>,
     <<32, 89, 65, 32>>,
     <<32, 84, 79, 68, 79, 32>>,
     <<32, 69, 83, 84, 65, 32>>,
     <<32, 72, 65, 89, 32>>,
     <<32, 69, 83, 84, 79, 32>>,
     <<32, 83, 79, 78, 32>>,
     <<32, 84, 73, 69, 78, 69, 32>>,
     <<32, 72, 65, 67, 69, 32>>,
     <<32, 83, 85, 83, 32>>,
     <<32, 86, 73, 68, 65, 32>>,
     <<32, 78, 79, 83, 32>>,
     <<32, 84, 69, 32>>,
     <<32, 76, 79, 32>>,
     <<32, 77, 69, 32>>,
     <<32, 69, 83, 84, 69, 32>>,
     <<32, 69, 83, 65, 32>>,
     <<32, 69, 83, 69, 32>>,
     <<32, 66, 73, 69, 78, 32>>,
     <<32, 77, 85, 89, 32>>,
     <<32, 80, 85, 69, 68, 69, 32>>,
     <<32, 84, 65, 77, 66, 73, 69, 78, 32>>,
     <<32, 65, 85, 78, 32>>,
     <<32, 77, 73, 32>>,
     <<32, 68, 79, 83, 32>>,
     <<32, 85, 78, 79, 32>>,
     <<32, 79, 84, 82, 79, 32>>,
     <<32, 78, 85, 69, 86, 79, 32>>,
     <<32, 83, 73, 78, 32>>,
     <<32, 69, 78, 84, 82, 69, 32>>,
     <<32, 83, 79, 66, 82, 69, 32>> >>

\* The passes of the while loop of fitness for the word w from position
\* pos (counted from 1): every find that succeeds, the search resuming
\* behind the word found.
RECURSIVE Vigenere_finds(_, _, _)
Vigenere_finds(text, w, pos) ==
  LET hits == {p \in pos..(Len(text) - Len(w) + 1) :
                 SubSeq(text, p, p + Len(w) - 1) = w}
  IN IF hits = {} THEN 0
     ELSE LET first == CHOOSE p \in hits : \A q \in hits : p <= q
          IN 1 + Vigenere_finds(text, w, first + Len(w))

\* What the words lo..hi of the list add to score (the sum is split in
\* halves; it does not depend on the order).
RECURSIVE Vigenere_score(_, _, _)
Vigenere_score(text, lo, hi) ==
  IF lo = hi
  THEN Len(Vigenere_comunes[lo])
         * Vigenere_finds(text, Vigenere_comunes[lo], 1)
  ELSE Vigenere_score(text, lo, (lo + hi) \div 2)
         + Vigenere_score(text, ((lo + hi) \div 2) + 1, hi)

\* fitness(text)
fitness(text) == Vigenere_score(text, 1, Len(Vigenere_comunes))

\* bestScore = -infinity, bestKey empty: every score is >= 0, so -1 stands
\* for -infinity.
Vigenere_noBest == [bestScore |-> -1, bestKey |-> <<>>]

\* A plausible slip: '>=' in place of '>', so the last best key wins.
Vigenere_keep_last(best, trailKey, score) ==
  IF score >= best.bestScore
  THEN [bestScore |-> score, bestKey |-> trailKey]
  ELSE best

\* if (score > bestScore) { bestScore = score; bestKey = trailKey; }
Vigenere_keep(best, trailKey, score) ==
  IF score > best.bestScore
  THEN [bestScore |-> score, bestKey |-> trailKey]
  ELSE best

\* dfs(pos, maxLen) of breakEncode, started with the given trailKey and
\* best; Vigenere_dfsLoop is the part of its for loop that runs the letters
\* 'A' + lo .. 'A' + hi in order (first the lower half, then, with the best
\* that half leaves, the upper half; the one-element sets make the lower
\* half a value before the upper half starts).  Both return the best after
\* the call.
RECURSIVE Vigenere_dfs(_, _, _, _, _)
RECURSIVE Vigenere_dfsLoop(_, _, _, _, _, _, _)
Vigenere_dfs(text, pos, maxLen, trailKey, best) ==
  IF pos = maxLen
  THEN LET decodedText == Vigenere_decode(normalizeKey(trailKey), text)
       IN Vigenere_keep(best, trailKey, fitness(decodedText))
  ELSE Vigenere_dfsLoop(text, pos, maxLen, trailKey, best, 0, 25)

Vigenere_dfsLoop(text, pos, maxLen, trailKey, best, lo, hi) ==
  IF lo = hi
  THEN Vigenere_dfs(text, pos + 1, maxLen,
                    [trailKey EXCEPT ![pos + 1] = 65 + lo], best)
  ELSE LET mid == (lo + hi) \div 2
       IN CHOOSE after \in
            { Vigenere_dfsLoop(text, pos, maxLen, trailKey, lower,
                               mid + 1, hi) :
                lower \in { Vigenere_dfsLoop(text, pos, maxLen, trailKey,
                                             best, lo, mid) } } : TRUE

\* The best after the lengths 1..L of the outer loop of breakEncode.
RECURSIVE Vigenere_breakUpTo(_, _)
Vigenere_breakUpTo(text, L) ==
  IF L <= 0 THEN Vigenere_noBest
  ELSE CHOOSE after \in
         { Vigenere_dfs(text, 0, L, Fill(L, 65), best) :
             best \in { Vigenere_breakUpTo(text, L - 1) } } : TRUE

\* breakEncode(text, maxKeyLenght)
breakEncode(text, maxKeyLenght) ==
  Vigenere_breakUpTo(text, maxKeyLenght).bestKey

\* ' ' 'A' 'E' 'Y' 'a'; " DE ", " DE LA ", " Y Y ", " A A A ", " QUE  QUE ",
\* "de la"
FitnessTexts ==
  StringsUpTo({32, 65, 69, 89, 97}, MaxTextLen + 1)
    \cup { <<32, 68, 69, 32>>,
           <<32, 68, 69, 32, 76, 65, 32>>,
           <<32, 89, 32, 89, 32>>,
           <<32, 65, 32, 65, 32, 65, 32>>,
           <<32, 81, 85, 69, 32, 32, 81, 85, 69, 32>>,
           <<100, 101, 32, 108, 97>> }

\* " B ", " EF ", " EI ", "abc", "", " ef ", " EF MB "
BreakTexts ==
  { <<32, 66, 32>>,
    <<32, 69, 70, 32>>,
    <<32, 69, 73, 32>>,
    <<97, 98, 99>>,
    <<>>,
    <<32, 101, 102, 32>>,
    <<32, 69, 70, 32, 77, 66, 32>> }
BreakLengths == {1, 2}

VigenereFitness ==
  /\ ret = Idle
  /\ \E text \in FitnessTexts :
       ret' = [op |-> "Vigenere.fitness", status |-> "ok", text |-> text,
               value |-> fitness(text)]
  /\ UNCHANGED <<des, vig, gen, menu>>

VigenereBreakEncode ==
  /\ ret = Idle
  /\ \E text \in BreakTexts, maxKeyLenght \in BreakLengths :
       ret' = [op |-> "Vigenere.breakEncode", status |-> "ok",
               text |-> text, maxKeyLenght |-> maxKeyLenght,
               value |-> breakEncode(text, maxKeyLenght)]
  /\ UNCHANGED <<des, vig, gen, menu>>

(***************************************************************************)
(* utils.cpp                                                               *)
(***************************************************************************)

\* A plausible slip: the bits of each byte stored most significant first.
stringToBitset_msb(str) ==
  AsTuple([k \in 1..64 |->
     LET i == (k - 1) \div 8
         j == (k - 1) % 8
     IN IF i < Len(str) THEN Bit(ToBits(str[i + 1], 8), 7 - j) ELSE 0])

\* stringToBitset(str): bits[i * 8 + j] = byte[j] for i < min(|str|, 8).
stringToBitset(str) ==
  AsTuple([k \in 1..64 |->
     LET i == (k - 1) \div 8
         j == (k - 1) % 8
     IN IF i < Len(str) THEN Bit(ToBits(str[i + 1], 8), j) ELSE 0])

\* bitsetToString(bits): str[i] = the byte whose bit j is bits[i * 8 + j].
bitsetToString(bits) ==
  AsTuple([n \in 1..8 |-> FromBits(SubSeq(bits, (n - 1) * 8 + 1, n * 8))])

\* NUL, 0x01, 'A', 0x80, 0xFF
KeyBytes == {0, 1, 65, 128, 255}
KeyStrings ==
  StringsUpTo(KeyBytes, MaxTextLen + 1)
    \cup { <<75, 69, 89, 49, 50, 51, 52>>,
           <<49, 50, 51, 52, 53, 54, 55, 56>>,
           <<255, 0, 128, 1, 65, 66, 67, 68>>,
           <<65, 66, 67, 68, 69, 70, 71, 72, 73>>,
           <<1, 2, 4, 8, 16, 32, 64, 128, 255, 0>> }

UtilsStringToBitset ==
  /\ ret = Idle
  /\ \E str \in KeyStrings :
       ret' = [op |-> "stringToBitset", status |-> "ok", str |-> str,
               value |-> stringToBitset(str)]
  /\ UNCHANGED <<des, vig, gen, menu>>

UtilsBitsetToString ==
  /\ ret = Idle
  /\ \E bits \in DESBlocks \cup DESKeys :
       ret' = [op |-> "bitsetToString", status |-> "ok", bits |-> bits,
               value |-> bitsetToString(bits)]
  /\ UNCHANGED <<des, vig, gen, menu>>

(***************************************************************************)
(* CryptoGenerator.h : hex and Base64 codecs                               *)
(***************************************************************************)

\* The digit that std::hex prints for d in 0..15 (lower case).
HexDigit(d) == IF d < 10 THEN 48 + d ELSE 87 + d

\* A plausible slip: no std::setw(2), so no leading zero.
RECURSIVE toHex_nopad(_)
toHex_nopad(data) ==
  IF data = <<>> THEN <<>>
  ELSE LET byte == data[1]
           rest == [n \in 1..(Len(data) - 1) |-> data[n + 1]]
       IN (IF byte < 16 THEN <<HexDigit(byte)>>
           ELSE <<HexDigit(byte \div 16), HexDigit(byte % 16)>>)
          \o toHex_nopad(rest)

\* toHex(data): std::hex, std::setw(2), std::setfill('0') for every byte.
toHex(data) ==
  AsTuple([n \in 1..(2 * Len(data)) |->
     LET byte == data[(n + 1) \div 2]
     IN IF n % 2 = 1 THEN HexDigit(byte \div 16) ELSE HexDigit(byte % 16)])

\* Value of a hexadecimal digit character, -1 for any other character.
HexVal(c) ==
  IF c >= 48 /\ c <= 57 THEN c - 48
  ELSE IF c >= 97 /\ c <= 102 THEN c - 87
  ELSE IF c >= 65 /\ c <= 70 THEN c - 55
  ELSE -1

\* 'std::istringstream(two characters) >> std::hex >> byte', then the cast
\* to uint8_t: leading white space is skipped, a sign is accepted, the
\* digits stop at the first non-digit, and a failed conversion stores 0.
\* When both characters are white space the stream hits its end before any
\* conversion starts and byte, which is not initialised, is left as it was:
\* the value read is a stray one.
ParseHex(c1, c2, stray) ==
  IF IsSpace(c1)
  THEN (IF IsSpace(c2) THEN stray
        ELSE IF HexVal(c2) >= 0 THEN HexVal(c2) ELSE 0)
  ELSE IF c1 = 43 THEN (IF HexVal(c2) >= 0 THEN HexVal(c2) ELSE 0)
  ELSE IF c1 = 45 THEN (IF HexVal(c2) >= 0 THEN (256 - HexVal(c2)) % 256 ELSE 0)
  ELSE IF HexVal(c1) >= 0
       THEN (IF HexVal(c2) >= 0 THEN 16 * HexVal(c1) + HexVal(c2)
             ELSE HexVal(c1))
  ELSE 0

\* Some pair of hex is all white space (byte is read uninitialised).
HexReadsUninit(hex) ==
  \E n \in 1..(Len(hex) \div 2) : IsSpace(hex[2 * n - 1]) /\ IsSpace(hex[2 * n])

\* What the uninitialised 'unsigned int byte' holds, cast to uint8_t: any
\* byte (what the previous iteration left, or whatever the stack held).
UninitBytes == 0..255

\* fromHex(hex): throws on an odd length.  stray[n] is what byte holds in
\* iteration n when the extraction leaves it unwritten.
fromHex(hex, stray) ==
  IF Len(hex) % 2 # 0
  THEN [status |-> "throw", out |-> <<>>]
  ELSE [status |-> IF HexReadsUninit(hex) THEN "uninit" ELSE "ok",
        out |-> AsTuple([n \in 1..(Len(hex) \div 2) |->
                  ParseHex(hex[2 * n - 1], hex[2 * n], stray[n])])]

\* The values byte can hold in the iterations of fromHex(hex): any byte
\* where the pair is all white space; 0 stands in where it is written.
HexStrays(hex) ==
  LET unwritten == {n \in 1..(Len(hex) \div 2) :
                      IsSpace(hex[2 * n - 1]) /\ IsSpace(hex[2 * n])}
  IN { [n \in 1..(Len(hex) \div 2) |-> IF n \in unwritten THEN f[n] ELSE 0] :
         f \in [unwritten -> UninitBytes] }

\* table[v] of toBase64.
B64Char(v) ==
  IF v < 26 THEN 65 + v
  ELSE IF v < 52 THEN 97 + (v - 26)
  ELSE IF v < 62 THEN 48 + (v - 52)
  ELSE IF v = 62 THEN 43
  ELSE 47

\* toBase64(data): blocks of three bytes, then the one or two left over.
RECURSIVE toBase64(_)
toBase64(data) ==
  IF Len(data) >= 3
  THEN LET block == data[1] * 65536 + data[2] * 256 + data[3]
       IN << B64Char((block \div 262144) % 64), B64Char((block \div 4096) % 64),
             B64Char((block \div 64) % 64), B64Char(block % 64) >>
          \o toBase64(SubSeq(data, 4, Len(data)))
  ELSE IF Len(data) = 2
  THEN LET block == data[1] * 65536 + data[2] * 256
       IN << B64Char((block \div 262144) % 64), B64Char((block \div 4096) % 64),
             B64Char((block \div 64) % 64), 61 >>
  ELSE IF Len(data) = 1
  THEN LET block == data[1] * 65536
       IN << B64Char((block \div 262144) % 64), B64Char((block \div 4096) % 64),
             61, 61 >>
  ELSE <<>>

\* The inner for loop of fromBase64 from position i (0-based): characters
\* whose table entry is 0xFF are skipped, up to four others are packed.
RECURSIVE B64Group(_, _, _, _, _, _)
B64Group(decTable, b64, i, j, block, chars) ==
  IF j < 4 /\ i < Len(b64)
  THEN LET v == decTable[b64[i + 1]]
       IN IF v = 255
          THEN B64Group(decTable, b64, i + 1, j, block, chars)
          ELSE B64Group(decTable, b64, i + 1, j + 1,
                        OrU32(block * 64, v), chars + 1)
  ELSE [i |-> i, block |-> block, chars |-> chars]

\* The bytes pushed for one group: k = 0 .. chars - 2.
B64Emit(block, chars) ==
  AsTuple([k \in 1..(chars - 1) |->
             (block \div (2 ^ (8 * (chars - 1 - k)))) % 256])

\* The outer while loop.  A group with chars = 0 makes the unsigned bound
\* chars - 1 wrap around to 2^32 - 1 (status "wrap").
RECURSIVE B64Loop(_, _, _, _)
B64Loop(decTable, b64, i, out) ==
  IF i < Len(b64)
  THEN LET g == B64Group(decTable, b64, i, 0, 0, 0)
       IN IF g.chars = 0
          THEN [status |-> "wrap", out |-> out]
          ELSE B64Loop(decTable, b64, g.i, out \o B64Emit(g.block, g.chars))
  ELSE [status |-> "ok", out |-> out]

\* The argument of out.reserve is unsigned: (len / 4) * 3 - pad below zero
\* wraps around and reserve throws std::length_error.
B64ReserveThrows(b64) ==
  LET len == Len(b64)
      pad == (IF len >= 1 /\ b64[len] = 61 THEN 1 ELSE 0)
               + (IF len >= 2 /\ b64[len - 1] = 61 THEN 1 ELSE 0)
  IN (len \div 4) * 3 < pad

\* fromBase64(b64) on an object whose table holds decTable at the
\* characters of b64.
fromBase64(decTable, b64) ==
  IF B64ReserveThrows(b64)
  THEN [status |-> "length_error", out |-> <<>>]
  ELSE B64Loop(decTable, b64, 0, <<>>)

\* An entry of _decTable when it is first read.  No constructor and no
\* method writes the table, so an entry holds whatever the storage of the
\* object held: any byte.
UninitTableBytes == 0..255

\* The table of an object no call has read yet: gen.decTable holds the
\* entries that were read, each with the value it had at its first read
\* (nothing writes it, so it has the same value at every later read).
NoTableReads == [c \in {} |-> 0]

\* The entries of _decTable that fromBase64(b64) reads: one for every
\* character, none when reserve throws.
TableReads(b64) ==
  IF B64ReserveThrows(b64) THEN {} ELSE {b64[n] : n \in 1..Len(b64)}

\* The tables an object can have after a call that reads the entries
\* reads: the entries known stay, every other one read is any byte.
TablesAfter(decTable, reads) ==
  { [c \in DOMAIN decTable \cup reads |->
       IF c \in DOMAIN decTable THEN decTable[c] ELSE fresh[c]] :
      fresh \in [reads \ DOMAIN decTable -> UninitTableBytes] }

\* 0x00, '\n', 'A', 0xFF
GenBytes == {0, 10, 65, 255}
GenData == StringsUpTo(GenBytes, MaxBytesLen)
\* '0' 'a' 'f' 'F' 'g' ' ' '-'
HexInputs == StringsUpTo({48, 97, 102, 70, 103, 32, 45}, MaxBytesLen)
\* 'A' '\n'; "AAA", "AAAA", "AA\n", "AAAA\n"
B64Inputs ==
  StringsUpTo({65, 10}, MaxTextLen)
    \cup { <<65, 65, 65>>, <<65, 65, 65, 65>>, <<65, 65, 10>>,
           <<65, 65, 65, 65, 10>> }

\* CryptoGenerator(): seeds the engine; _decTable stays uninitialised.
GenConstruct ==
  /\ ret = Idle
  /\ gen' = [state |-> "live", decTable |-> NoTableReads]
  /\ ret' = [op |-> "CryptoGenerator()"]
  /\ UNCHANGED <<des, vig, menu>>

GenToHex ==
  /\ ret = Idle
  /\ gen.state = "live"
  /\ \E data \in GenData :
       ret' = [op |-> "toHex", status |-> "ok", data |-> data,
               value |-> toHex(data)]
  /\ UNCHANGED <<des, vig, gen, menu>>

GenFromHex ==
  /\ ret = Idle
  /\ gen.state = "live"
  /\ \E hex \in HexInputs : \E stray \in HexStrays(hex) :
       LET r == fromHex(hex, stray)
       IN ret' = [op |-> "fromHex", status |-> r.status, hex |-> hex,
                  value |-> r.out]
  /\ UNCHANGED <<des, vig, gen, menu>>

GenToBase64 ==
  /\ ret = Idle
  /\ gen.state = "live"
  /\ \E data \in GenData :
       ret' = [op |-> "toBase64", status |-> "ok", data |-> data,
               value |-> toBase64(data)]
  /\ UNCHANGED <<des, vig, gen, menu>>

GenFromBase64 ==
  /\ ret = Idle
  /\ gen.state = "live"
  /\ \E b64 \in B64Inputs :
       \E decTable \in TablesAfter(gen.decTable, TableReads(b64)) :
          LET r == fromBase64(decTable, b64)
          IN /\ gen' = [gen EXCEPT !.decTable = decTable]
             /\ ret' = [op |-> "fromBase64", status |-> r.status,
                        b64 |-> b64, value |-> r.out]
  /\ UNCHANGED <<des, vig, menu>>

\* std::uniform_int_distribution(lo, hi) applied to the engine, which the
\* constructor seeds from std::random_device: any value of lo..hi.
uniform_int_distribution(lo, hi) == lo..hi

\* generateBytes(numBytes): the vectors it can return, one draw of
\* dist(0, 255) per byte, cast to uint8_t.
generateBytes(numBytes) ==
  { AsTuple([i \in 1..numBytes |-> d[i] % 256]) :
      d \in [1..numBytes -> uniform_int_distribution(0, 255)] }

\* Mutant of generateKey: the multiple-of-8 test is missing.
generateKey_nocheck(bits) ==
  { [status |-> "ok", out |-> b] : b \in generateBytes(bits \div 8) }

\* generateKey(bits): throws std::runtime_error unless bits is a multiple
\* of 8, otherwise generateBytes(bits / 8).
generateKey(bits) ==
  IF bits % 8 # 0
  THEN { [status |-> "throw", out |-> <<>>] }
  ELSE { [status |-> "ok", out |-> b] : b \in generateBytes(bits \div 8) }

KeyBits == {0, 1, 7, 8, 9, 12, 16}

GenGenerateKey ==
  /\ ret = Idle
  /\ gen.state = "live"
  /\ \E bits \in KeyBits : \E r \in generateKey(bits) :
       ret' = [op |-> "generateKey", status |-> r.status, bits |-> bits,
               value |-> r.out]
  /\ UNCHANGED <<des, vig, gen, menu>>

\* The character classes of generatePassword, as byte strings.
uppers == [i \in 1..26 |-> 64 + i]
lowers == [i \in 1..26 |-> 96 + i]
digits == [i \in 1..10 |-> 47 + i]
\* "!@#$%^&*()-_=+[]{}|;:',.<>?/"
symbols ==
  <<33, 64, 35, 36, 37, 94, 38, 42, 40, 41, 45, 95, 61, 43, 91, 93, 123,
  125, 124, 59, 58, 39, 44, 46, 60, 62, 63, 47>>

PasswordPool(useUpper, useLower, useDigits, useSymbols) ==
  (IF useUpper THEN uppers ELSE <<>>) \o (IF useLower THEN lowers ELSE <<>>)
    \o (IF useDigits THEN digits ELSE <<>>)
    \o (IF useSymbols THEN symbols ELSE <<>>)

\* generatePassword(length, ...): throws when no class is enabled, otherwise
\* the string of length characters pool[draws[i]], draws[i] being the i-th
\* value that dist(0, pool.size() - 1) takes from the engine.
generatePassword(length, useUpper, useLower, useDigits, useSymbols, draws) ==
  LET pool == PasswordPool(useUpper, useLower, useDigits, useSymbols)
  IN IF pool = <<>>
     THEN [status |-> "throw", out |-> <<>>]
     ELSE [status |-> "ok",
           out |-> AsTuple([i \in 1..length |-> pool[draws[i] + 1]])]

\* The values dist(m_engine) can take in a call whose pool has n
\* characters: every sequence of length values of 0..n-1.
PasswordDraws(length, n) ==
  IF n = 0 THEN { <<>> }
  ELSE [1..length -> uniform_int_distribution(0, n - 1)]

\* isdigit and ispunct of the "C" locale.
IsDigit(c) == c >= 48 /\ c <= 57
IsPunct(c) ==
  \/ (c >= 33 /\ c <= 47)
  \/ (c >= 58 /\ c <= 64)
  \/ (c >= 91 /\ c <= 96)
  \/ (c >= 123 /\ c <= 126)

\* Mutant of validatePassword: the symbol requirement is missing.
validatePassword_nosymbols(password) ==
  IF Len(password) < 8 THEN FALSE
  ELSE /\ \E n \in 1..Len(password) : IsUpper(password[n])
       /\ \E n \in 1..Len(password) : IsLower(password[n])
       /\ \E n \in 1..Len(password) : IsDigit(password[n])

\* validatePassword(password): at least 8 characters and, by the else-if
\* chain over the characters, one upper-case letter, one lower-case letter,
\* one digit and one punctuation character.
validatePassword(password) ==
  IF Len(password) < 8 THEN FALSE
  ELSE LET hasUpper == \E n \in 1..Len(password) : IsUpper(password[n])
           hasLower == \E n \in 1..Len(password) :
                         ~IsUpper(password[n]) /\ IsLower(password[n])
           hasDigit == \E n \in 1..Len(password) :
                         /\ ~IsUpper(password[n]) /\ ~IsLower(password[n])
                         /\ IsDigit(password[n])
           hasSymbols == \E n \in 1..Len(password) :
                           /\ ~IsUpper(password[n]) /\ ~IsLower(password[n])
                           /\ ~IsDigit(password[n]) /\ IsPunct(password[n])
       IN hasUpper /\ hasLower /\ hasDigit /\ hasSymbols

\* <<length, useUpper, useLower, useDigits, useSymbols>>
PasswordCalls ==
  { <<2, TRUE, TRUE, TRUE, TRUE>>, <<1, TRUE, TRUE, TRUE, TRUE>>,
    <<3, TRUE, TRUE, TRUE, FALSE>>, <<2, FALSE, FALSE, TRUE, FALSE>>,
    <<0, TRUE, FALSE, FALSE, FALSE>>, <<2, FALSE, FALSE, FALSE, FALSE>> }

\* Strings that generatePassword(8, true, true, true, true) returned when
\* the program was run:
\* "GgIsqE{j", "xp4.2Z;x", "s?j.%/sU", "TE{=Sg:?", "l/#'ALb/", "|h[[K&GK"
GeneratedPasswords ==
  { <<71, 103, 73, 115, 113, 69, 123, 106>>,
    <<120, 112, 52, 46, 50, 90, 59, 120>>,
    <<115, 63, 106, 46, 37, 47, 115, 85>>,
    <<84, 69, 123, 61, 83, 103, 58, 63>>,
    <<108, 47, 35, 39, 65, 76, 98, 47>>,
    <<124, 104, 91, 91, 75, 38, 71, 75>> }

\* "", "Aa0!", "Aa0!Aa0!", "Aa0aAa0a", "AAAAAAAA", "Aa0 Aa0 ", "Aa0!Aa0" + 0xC8
PasswordInputs ==
  { <<>>, <<65, 97, 48, 33>>, <<65, 97, 48, 33, 65, 97, 48, 33>>,
    <<65, 97, 48, 97, 65, 97, 48, 97>>, <<65, 65, 65, 65, 65, 65, 65, 65>>,
    <<65, 97, 48, 32, 65, 97, 48, 32>>,
    <<65, 97, 48, 33, 65, 97, 48, 200>> }
    \cup GeneratedPasswords


GenGeneratePassword ==
  /\ ret = Idle
  /\ gen.state = "live"
  /\ \E c \in PasswordCalls :
       \E draws \in PasswordDraws(c[1],
                                  Len(PasswordPool(c[2], c[3], c[4], c[5]))) :
          LET r == generatePassword(c[1], c[2], c[3], c[4], c[5], draws)
          IN ret' = [op |-> "generatePassword", status |-> r.status,
                  length |-> c[1], useUpper |-> c[2], useLower |-> c[3],
                  useDigits |-> c[4], useSymbols |-> c[5], value |-> r.out]
  /\ UNCHANGED <<des, vig, gen, menu>>

GenValidatePassword ==
  /\ ret = Idle
  /\ gen.state = "live"
  /\ \E password \in PasswordInputs :
       ret' = [op |-> "validatePassword", status |-> "ok",
               password |-> password, value |-> validatePassword(password)]
  /\ UNCHANGED <<des, vig, gen, menu>>

\* A plausible slip in printHex: std::uppercase, so digits A-F.
printHex_upper(input) ==
  AsTuple([n \in 1..(3 * Len(input)) |->
     LET c == input[(n + 2) \div 3]
         digit(d) == IF d < 10 THEN 48 + d ELSE 55 + d
     IN IF n % 3 = 1 THEN digit(c \div 16)
        ELSE IF n % 3 = 2 THEN digit(c % 16)
        ELSE 32])

\* printHex(input): what it writes to std::cout, two lower-case hexadecimal
\* digits and a space for every byte.
printHex(input) ==
  AsTuple([n \in 1..(3 * Len(input)) |->
     LET c == input[(n + 2) \div 3]
     IN IF n % 3 = 1 THEN HexDigit(c \div 16)
        ELSE IF n % 3 = 2 THEN HexDigit(c % 16)
        ELSE 32])

\* isValidText(data): every byte is printable or white space ("C" locale).
isValidText(data) ==
  \A n \in 1..Len(data) :
     (data[n] >= 32 /\ data[n] <= 126) \/ IsSpace(data[n])

\* "clave", "admin", "1234", "root", "test", "abc", "hola", "user", "pass",
\* "12345", "0000", "password", "default"
clavesComunes ==
  << <<99, 108, 97, 118, 101>>,
     <<97, 100, 109, 105, 110>>,
     <<49, 50, 51, 52>>,
     <<114, 111, 111, 116>>,
     <<116, 101, 115, 116>>,
     <<97, 98, 99>>,
     <<104, 111, 108, 97>>,
     <<117, 115, 101, 114>>,
     <<112, 97, 115, 115>>,
     <<49, 50, 51, 52, 53>>,
     <<48, 48, 48, 48>>,
     <<112, 97, 115, 115, 119, 111, 114, 100>>,
     <<100, 101, 102, 97, 117, 108, 116>> >>

\* bruteForceByDictionary(cifrado): the <<key, text>> pairs it prints, in
\* the order of the dictionary.
bruteForceByDictionary(cifrado) ==
  LET attempts ==
        [k \in 1..Len(clavesComunes) |->
           [clave |-> clavesComunes[k],
            text |-> XOR_encode(cifrado, clavesComunes[k])]]
  IN SelectSeq(attempts, LAMBDA a : isValidText(a.text))

\* bruteForce_1Byte(cifrado): the key and text pairs it prints, in the order
\* clave = 0 .. 255.
bruteForce_1Byte(cifrado) ==
  LET attempts ==
        [n \in 1..256 |->
           LET clave == n - 1
           IN [clave |-> <<clave>>,
               text |-> AsTuple([i \in 1..Len(cifrado) |->
                                   XorByte(cifrado[i], clave)])]]
  IN SelectSeq(attempts, LAMBDA a : isValidText(a.text))

\* A plausible slip: key[(i + 1) % 2], the two key bytes taken in the wrong
\* order.
bruteForce_2Byte_swapped(cifrado) ==
  LET attempts ==
        [n \in 1..65536 |->
           LET key == <<(n - 1) \div 256, (n - 1) % 256>>
           IN [clave |-> key,
               text |-> AsTuple([i \in 1..Len(cifrado) |->
                                   XorByte(cifrado[i], key[(i % 2) + 1])])]]
  IN SelectSeq(attempts, LAMBDA a : isValidText(a.text))

\* bruteForce_2Byte(cifrado): the key and text pairs it prints, in the order
\* of the two nested loops (b1 outside, b2 inside); byte i of the text is
\* cifrado[i] ^ key[i % 2], i counted from 0.
bruteForce_2Byte(cifrado) ==
  LET attempts ==
        [n \in 1..65536 |->
           LET key == <<(n - 1) \div 256, (n - 1) % 256>>
           IN [clave |-> key,
               text |-> AsTuple([i \in 1..Len(cifrado) |->
                                   XorByte(cifrado[i],
                                           key[((i - 1) % 2) + 1])])]]
  IN SelectSeq(attempts, LAMBDA a : isValidText(a.text))

\* Plaintexts of the attacked messages: "", "Hi", "ab", "a b", "Hola",
\* "a\nb" (readable, with a line feed) and "~" .
AttackPlaintexts ==
  { <<>>, <<72, 105>>, <<97, 98>>, <<97, 32, 98>>, <<72, 111, 108, 97>>,
    <<97, 10, 98>>, <<126>> }

\* Keys the messages were encoded under: one byte, two bytes, dictionary.
AttackKeys1 == { <<0>>, <<32>>, <<99>>, <<255>> }
AttackKeys2 == { <<1, 2>>, <<255, 99>> }
AttackKeysDict == { clavesComunes[k] : k \in 1..Len(clavesComunes) }

\* Ciphertexts that are no readable message under most keys: 0xC8 0x07,
\* 0x00, 0x80 0x80 0x80.
RawCifrados == { <<200, 7>>, <<0>>, <<128, 128, 128>> }

Cifrados(keys) ==
  { XOR_encode(p, k) : p \in AttackPlaintexts, k \in keys } \cup RawCifrados

\* The two-byte attack is run on "", "Hi", "a b" and "a\nb" under the
\* two-byte keys, and on 0xC8 0x07.
Cifrados2 ==
  { XOR_encode(p, k) :
      p \in { <<>>, <<72, 105>>, <<97, 32, 98>>, <<97, 10, 98>> },
      k \in AttackKeys2 } \cup { <<200, 7>> }

XorBruteForce1Byte ==
  /\ ret = Idle
  /\ \E cifrado \in Cifrados(AttackKeys1 \cup AttackKeysDict) :
       ret' = [op |-> "XOR.bruteForce_1Byte", status |-> "ok",
               cifrado |-> cifrado, value |-> bruteForce_1Byte(cifrado)]
  /\ UNCHANGED <<des, vig, gen, menu>>

XorBruteForce2Byte ==
  /\ ret = Idle
  /\ \E cifrado \in Cifrados2 :
       ret' = [op |-> "XOR.bruteForce_2Byte", status |-> "ok",
               cifrado |-> cifrado, value |-> bruteForce_2Byte(cifrado)]
  /\ UNCHANGED <<des, vig, gen, menu>>

XorBruteForceByDictionary ==
  /\ ret = Idle
  /\ \E cifrado \in Cifrados(AttackKeys1 \cup AttackKeysDict) :
       ret' = [op |-> "XOR.bruteForceByDictionary", status |-> "ok",
               cifrado |-> cifrado,
               value |-> bruteForceByDictionary(cifrado)]
  /\ UNCHANGED <<des, vig, gen, menu>>

\* "Hola Mundo"
XorMensaje == <<72, 111, 108, 97, 32, 77, 117, 110, 100, 111>>
\* "clave"
XorClave == <<99, 108, 97, 118, 101>>

\* testXorEncoder() of main.cpp: encodes "Hola Mundo" under "clave", encodes
\* the result again, prints the hex dump and runs the dictionary attack.
TestXorEncoder ==
  /\ ret = Idle
  /\ LET cifrado == XOR_encode(XorMensaje, XorClave)
         descifrado == XOR_encode(cifrado, XorClave)
     IN ret' = [op |-> "testXorEncoder", status |-> "ok",
                mensaje |-> XorMensaje, clave |-> XorClave,
                cifrado |-> cifrado, hex |-> printHex(cifrado),
                descifrado |-> descifrado,
                candidates |-> bruteForceByDictionary(cifrado)]
  /\ UNCHANGED <<des, vig, gen, menu>>

(***************************************************************************)
(* main.cpp: the menu loop of main()                                       *)
(***************************************************************************)

\* What std::cin holds next: a selection that fits an int, followed by at
\* least one more character ("int") or by the end of the input ("last"), a
\* decimal number above INT_MAX ("big") or below INT_MIN ("small"), a token
\* that is no number ("junk"), or the end of the input ("eof").
Selections == {0, 1, 2, 3, 4, 5, 7, -1}
Tokens ==
  { [kind |-> k, value |-> v] : k \in {"int", "last"}, v \in Selections }
    \cup { [kind |-> k, value |-> 0] :
             k \in {"big", "small", "junk", "eof"} }

\* What the uninitialised int opcion can hold when the switch reads it: any
\* int.  The value is never stored, so what it does is the branch of the
\* switch it selects; these values select every branch.
Indeterminate == Selections \cup {IntMin, IntMax}

\* std::cin >> opcion; std::cin.ignore(); on a stream in state good, opcion
\* holding a value or not (set): the new stream state and value, and
\* whether a selection was extracted.  A stream that already failed
\* extracts nothing and leaves opcion alone; so does the end of the input,
\* which sets failbit; a token that is no number stores 0, a number above
\* the range stores INT_MAX and one below it INT_MIN, all three set failbit.
\* A number that ends the input is extracted with eofbit set, and ignore()
\* on that stream sets failbit.
CinRead(good, set, opcion, token) ==
  IF ~good \/ token.kind = "eof"
  THEN [good |-> FALSE, set |-> set, opcion |-> opcion, read |-> FALSE]
  ELSE IF token.kind = "junk"
  THEN [good |-> FALSE, set |-> TRUE, opcion |-> 0, read |-> FALSE]
  ELSE IF token.kind = "big"
  THEN [good |-> FALSE, set |-> TRUE, opcion |-> IntMax, read |-> FALSE]
  ELSE IF token.kind = "small"
  THEN [good |-> FALSE, set |-> TRUE, opcion |-> IntMin, read |-> FALSE]
  ELSE [good |-> token.kind = "int", set |-> TRUE, opcion |-> token.value,
        read |-> TRUE]

\* switch (opcion): the demo it calls or the line it prints.
MenuSwitch(opcion) ==
  IF opcion = 1 THEN "testCesar"
  ELSE IF opcion = 2 THEN "testXorEncoder"
  ELSE IF opcion = 3 THEN "testAsciiBinary"
  ELSE IF opcion = 4 THEN "testDes"
  ELSE IF opcion = 0 THEN "Saliendo"
  ELSE "Opcion invalida"

\* int opcion; declared without a value (set is FALSE), std::cin good,
\* nothing read and nothing printed, the do-while loop about to start.
MenuStart ==
  [pc |-> "menu", good |-> TRUE, set |-> FALSE, opcion |-> 0,
   reads |-> <<>>, out |-> <<>>]

\* The head of an iteration of the do-while loop: the menu and the prompt
\* are printed, and the program is at std::cin >> opcion.
MainPrintMenu ==
  /\ menu.pc = "menu"
  /\ Len(menu.out) < 2 * MaxMenuRounds
  /\ menu' = [menu EXCEPT !.pc = "read", !.out = Append(menu.out, "menu")]
  /\ UNCHANGED <<des, vig, gen, ret>>

\* The rest of the iteration: a selection is extracted from std::cin, the
\* switch acts on opcion, and the loop ends when opcion is 0.  opcion read
\* while it has no value is undefined: it is any value.
MainSelect ==
  /\ menu.pc = "read"
  /\ \E token \in Tokens :
       LET cin == CinRead(menu.good, menu.set, menu.opcion, token)
       IN \E opcion \in (IF cin.set THEN {cin.opcion} ELSE Indeterminate) :
            menu' = [pc |-> IF opcion # 0 THEN "menu" ELSE "done",
                     good |-> cin.good,
                     set |-> cin.set,
                     opcion |-> IF cin.set THEN opcion ELSE 0,
                     reads |-> IF cin.read
                               THEN Append(menu.reads, token.value)
                               ELSE menu.reads,
                     out |-> Append(menu.out, MenuSwitch(opcion))]
  /\ UNCHANGED <<des, vig, gen, ret>>

Init ==
  /\ des = NoObject
  /\ vig = NoObject
  /\ gen = NoObject
  /\ ret = Idle
  /\ menu = MenuStart

NextDES ==
  \/ DESDefault
  \/ DESConstruct
  \/ DESGenerateSubkeys
  \/ DESEncode
  \/ Consume

SpecDES == Init /\ [][NextDES]_vars

NextCesar ==
  \/ CesarEncode
  \/ CesarDecode
  \/ CesarEvaluatePossibleKey
  \/ Consume

SpecCesar == Init /\ [][NextCesar]_vars

NextXOR ==
  \/ XOREncode
  \/ TestXorEncoder
  \/ Consume

SpecXOR == Init /\ [][NextXOR]_vars

NextXorAttack ==
  \/ XorBruteForce1Byte
  \/ XorBruteForce2Byte
  \/ XorBruteForceByDictionary
  \/ Consume

SpecXorAttack == Init /\ [][NextXorAttack]_vars

NextMenu ==
  \/ MainPrintMenu
  \/ MainSelect

SpecMenu == Init /\ [][NextMenu]_vars

NextAscii ==
  \/ AsciiStringToBinary
  \/ AsciiBinaryToString
  \/ Consume

SpecAscii == Init /\ [][NextAscii]_vars

NextVigenere ==
  \/ VigenereDefault
  \/ VigenereConstruct
  \/ VigenereEncode
  \/ VigenereDecode
  \/ Consume

SpecVigenere == Init /\ [][NextVigenere]_vars

NextBreak ==
  \/ VigenereFitness
  \/ VigenereBreakEncode
  \/ Consume

SpecBreak == Init /\ [][NextBreak]_vars

NextUtils ==
  \/ UtilsStringToBitset
  \/ UtilsBitsetToString
  \/ Consume

SpecUtils == Init /\ [][NextUtils]_vars

NextGen ==
  \/ GenConstruct
  \/ GenToHex
  \/ GenFromHex
  \/ GenToBase64
  \/ Consume

SpecGen == Init /\ [][NextGen]_vars

NextBase64 ==
  \/ GenConstruct
  \/ GenFromBase64
  \/ Consume

SpecBase64 == Init /\ [][NextBase64]_vars

NextKey ==
  \/ GenConstruct
  \/ GenGenerateKey
  \/ Consume

SpecKey == Init /\ [][NextKey]_vars

NextPassword ==
  \/ GenConstruct
  \/ GenGeneratePassword
  \/ GenValidatePassword
  \/ Consume

SpecPassword == Init /\ [][NextPassword]_vars

(***************************************************************************)
(* Properties                                                              *)
(***************************************************************************)

\* A successful encode on an object whose subkeys were derived from its key.
DESEncoded == ret.op = "DES.encode" /\ ret.status = "ok"

\* C1 as stated: for every key k and block p, decode(encode(p)) = p, where
\* decode splits its input into L = high 32 bits and R = low 32 bits, runs
\* R' = L, L' = R XOR Feistel(L, subkey[round]) for round = 15..0 and
\* combines as (L << 32) | R.
C1_RoundTripHighLow ==
  DESEncoded =>
     DES_decode_highlow(generateSubkeys(des.key), ret.value) = ret.block

\* C1 amended: for every key k and block p, decode(encode(p)) = p, where
\* decode takes L = low 32 bits and R = high 32 bits of its input (encode
\* stores (R_final << 32) | L_final), runs the same rounds and combines as
\* (L << 32) | R.
C1_RoundTrip ==
  DESEncoded =>
     DES_decode(generateSubkeys(des.key), ret.value) = ret.block

\* C1 witness: the block 0x123456789ABCDEF1 encoded under the key
\* 0x133457799BBCDFF1 into a different block.
C1_Witness ==
  /\ DESEncoded
  /\ des.key = HexBits(<<1,3,3,4,5,7,7,9,9,11,11,12,13,15,15,1>>)
  /\ ret.block = HexBits(<<1,2,3,4,5,6,7,8,9,10,11,12,13,14,15,1>>)
  /\ ret.value # ret.block

\* C2: for every byte vector b, of any length, fromBase64(toBase64(b)) = b.
C2_Base64RoundTrip ==
  ret.op = "fromBase64" =>
     \A b \in GenData :
        ret.b64 = toBase64(b) => (ret.status = "ok" /\ ret.value = b)

\* C3: for every text and every raw key whose normalized form is not empty,
\* decode(encode(text)) = text; the output has the length of text, every
\* non-alphabetic byte is unchanged in place and every letter keeps its case.
C3_VigenereRoundTrip ==
  (ret.op = "Vigenere.encode" /\ vig.key # <<>>) =>
     /\ ret.status = "ok"
     /\ Vigenere_decode(vig.key, ret.value) = ret.text
     /\ Len(ret.value) = Len(ret.text)
     /\ \A n \in 1..Len(ret.text) :
          /\ ~IsAlpha(ret.text[n]) => ret.value[n] = ret.text[n]
          /\ IsUpper(ret.text[n]) => IsUpper(ret.value[n])
          /\ IsLower(ret.text[n]) => IsLower(ret.value[n])

\* C3 witness: "a.Z" encoded under the key "ZZ" (raw "zZ"): two letters of
\* different case around a non-letter, all of them changed or kept in place.
C3_Witness ==
  /\ ret.op = "Vigenere.encode"
  /\ vig.key = <<90, 90>>
  /\ ret.text = <<97, 46, 90>>
  /\ ret.value # ret.text

\* No character of t is an ASCII digit.
NoDigit(t) == \A i \in 1..Len(t) : ~(t[i] >= 48 /\ t[i] <= 57)

\* C4: for every shift k >= 0 and every text t without ASCII digit,
\* decode(encode(t, k), k) = t.
C4_CesarRoundTrip ==
  (ret.op = "Cesar.encode" /\ ret.k >= 0 /\ NoDigit(ret.texto)) =>
     /\ ret.status = "ok"
     /\ Cesar_decode(ret.value, ret.k) = ret.texto

\* Bit j of the byte c.
ByteBit(c, j) == (c \div (2 ^ j)) % 2

\* C5: for every text t and every non-empty key k, encode(encode(t, k), k)
\* = t, and encode(t, k) has the length of t, its byte i being
\* t[i] XOR k[i mod |k|].
C5_XorSelfInverse ==
  (ret.op = "XOR.encode" /\ ret.key # <<>>) =>
     /\ ret.status = "ok"
     /\ XOR_encode(ret.value, ret.key) = ret.input
     /\ Len(ret.value) = Len(ret.input)
     /\ \A i \in 0..(Len(ret.input) - 1), j \in 0..7 :
          ByteBit(ret.value[i + 1], j) = 1
            <=> (ByteBit(ret.input[i + 1], j)
                   # ByteBit(ret.key[(i % Len(ret.key)) + 1], j))

\* C5 witness: an input longer than a key of two bytes, so the key is
\* reused, and an output that differs from the input.
C5_Witness ==
  /\ ret.op = "XOR.encode"
  /\ ret.status = "ok"
  /\ Len(ret.key) = 2
  /\ Len(ret.input) > Len(ret.key)
  /\ ret.key[1] # ret.key[2]
  /\ ret.value # ret.input

\* C6: for every byte string s, binaryToString(stringToBinary(s)) = s, and
\* stringToBinary(s) is |s| groups of exactly eight '0'/'1', most
\* significant bit first, separated by one space, with no trailing space.
C6_AsciiRoundTrip ==
  ret.op = "stringToBinary" =>
     /\ binaryToString(ret.value) = ret.input
     /\ Len(ret.value) = (IF ret.input = <<>> THEN 0 ELSE 9 * Len(ret.input) - 1)
     /\ \A n \in 1..Len(ret.value) :
          IF n % 9 = 0 THEN ret.value[n] = 32
          ELSE ret.value[n] = 48 + ByteBit(ret.input[((n - 1) \div 9) + 1],
                                           8 - (n % 9))

\* C6 witness: the two bytes 0x80 and ' ' converted.
C6_Witness ==
  /\ ret.op = "stringToBinary"
  /\ ret.input = <<128, 32>>
  /\ Len(ret.value) = 17

\* The lower-case hexadecimal digits.
IsLowerHex(c) == (c >= 48 /\ c <= 57) \/ (c >= 97 /\ c <= 102)

\* C7: for every byte vector b, fromHex(toHex(b)) = b, and toHex(b) is
\* exactly 2 * |b| lower-case hexadecimal digits, two per byte.
C7_HexRoundTrip ==
  ret.op = "toHex" =>
     /\ \A stray \in HexStrays(ret.value) :
          fromHex(ret.value, stray) = [status |-> "ok", out |-> ret.data]
     /\ Len(ret.value) = 2 * Len(ret.data)
     /\ \A n \in 1..Len(ret.value) : IsLowerHex(ret.value[n])
     /\ \A n \in 1..Len(ret.data) :
          16 * HexVal(ret.value[2 * n - 1]) + HexVal(ret.value[2 * n])
            = ret.data[n]

\* C7 witness: the bytes 0x0A and 0xFF printed as "0aff".
C7_Witness ==
  /\ ret.op = "toHex"
  /\ ret.data = <<10, 255>>
  /\ ret.value = <<48, 97, 102, 102>>

\* The first 8 bytes of s, padded with zero bytes to length 8.
Pad8(s) == [n \in 1..8 |-> IF n <= Len(s) THEN s[n] ELSE 0]

\* C8: for every 64-bit word b, stringToBitset(bitsetToString(b)) = b; for
\* every string s, bitsetToString(stringToBitset(s)) is the first 8 bytes of
\* s zero-padded to length 8, bit j of byte i being bit 8i + j of the word.
C8_BitsetInverse ==
  /\ ret.op = "bitsetToString" =>
        /\ Len(ret.value) = 8
        /\ stringToBitset(ret.value) = ret.bits
  /\ ret.op = "stringToBitset" =>
        /\ bitsetToString(ret.value) = Pad8(ret.str)
        /\ \A i \in 0..7, j \in 0..7 :
             Bit(ret.value, 8 * i + j) = ByteBit(Pad8(ret.str)[i + 1], j)

\* C8 witness: a string of ten bytes converted, so that it is cut to 8.
C8_Witness ==
  /\ ret.op = "stringToBitset"
  /\ Len(ret.str) = 10
  /\ ret.str[1] = 1
  /\ Bit(ret.value, 0) = 1

\* C9: constructing a Vigenere with a raw key whose normalized form is
\* empty fails, and no live object holds an empty key.
C9_EmptyKeyRejected ==
  /\ (ret.op = "Vigenere(key)" /\ normalizeKey(ret.rawKey) = <<>>)
        => ret.status = "throw"
  /\ vig.state = "live" => vig.key # <<>>

\* C10: encode with an empty key reports an EmptyKey error for every input
\* and produces no output.
C10_EmptyKeyError ==
  (ret.op = "XOR.encode" /\ ret.key = <<>>) => ret.status = "EmptyKey"

\* The Base64 alphabet: A-Z, a-z, 0-9, '+', '/', and the padding '='.
IsBase64Char(c) ==
  \/ (c >= 65 /\ c <= 90)
  \/ (c >= 97 /\ c <= 122)
  \/ (c >= 48 /\ c <= 57)
  \/ c \in {43, 47, 61}

\* C11: fromBase64 on an input that contains a character outside the Base64
\* alphabet reports a MalformedEncoding error and returns no bytes.
C11_Base64InvalidRejected ==
  (ret.op = "fromBase64" /\ \E n \in 1..Len(ret.b64) : ~IsBase64Char(ret.b64[n]))
     => (ret.status = "MalformedEncoding" /\ ret.value = <<>>)

\* C12: generateKey(bits) fails exactly when bits is not a multiple of 8;
\* otherwise it returns exactly bits / 8 bytes, each in 0..255 (the empty
\* vector for bits = 0).
C12_GenerateKey ==
  ret.op = "generateKey" =>
     /\ ret.status = "throw" <=> ret.bits % 8 # 0
     /\ ret.bits % 8 = 0 =>
          /\ ret.status = "ok"
          /\ Len(ret.value) = ret.bits \div 8
          /\ \A n \in 1..Len(ret.value) : ret.value[n] \in 0..255

\* C12 witness: a 16-bit key of two different bytes was returned.
C12_Witness ==
  /\ ret.op = "generateKey"
  /\ ret.status = "ok"
  /\ ret.bits = 16
  /\ Len(ret.value) = 2
  /\ ret.value[1] # ret.value[2]

\* Some character of s is one of the characters of class.
HasCharOf(s, class) ==
  \E n \in 1..Len(s) : \E m \in 1..Len(class) : s[n] = class[m]

\* The 0-based position of c in pool, -1 when c is not in it.
PoolIndex(pool, c) ==
  IF \E m \in 1..Len(pool) : pool[m] = c
  THEN (CHOOSE m \in 1..Len(pool) : pool[m] = c) - 1
  ELSE -1

\* s is a string that generatePassword(Len(s), true, true, true, true) can
\* return: for draws the distribution can give, the call returns s.
ReturnedByGenerate(s) ==
  LET pool == PasswordPool(TRUE, TRUE, TRUE, TRUE)
      draws == [i \in 1..Len(s) |-> PoolIndex(pool, s[i])]
  IN /\ draws \in PasswordDraws(Len(s), Len(pool))
     /\ generatePassword(Len(s), TRUE, TRUE, TRUE, TRUE, draws)
          = [status |-> "ok", out |-> s]

\* validatePassword was applied to a string of 8 or more characters that
\* generatePassword(L, true, true, true, true) can return.
AllClassesPassword ==
  /\ ret.op = "validatePassword"
  /\ Len(ret.password) >= 8
  /\ ReturnedByGenerate(ret.password)

\* C13 as stated: for every L >= 8, every password that
\* generatePassword(L, true, true, true, true) can return satisfies
\* validatePassword.
C13_PasswordAlwaysValid ==
  AllClassesPassword => ret.value

\* C13, amended: generatePassword(L, true, true, true, true) returns L
\* characters, each any character of the 90-character pool, and for L >= 8
\* validatePassword accepts such a string exactly when it holds at least
\* one character of each of the four classes.
C13_PasswordValidIffAllClasses ==
  /\ (/\ ret.op = "generatePassword"
      /\ ret.useUpper /\ ret.useLower /\ ret.useDigits /\ ret.useSymbols) =>
        /\ ret.status = "ok"
        /\ Len(ret.value) = ret.length
        /\ ReturnedByGenerate(ret.value)
  /\ AllClassesPassword =>
        (ret.value
           <=> /\ HasCharOf(ret.password, uppers)
               /\ HasCharOf(ret.password, lowers)
               /\ HasCharOf(ret.password, digits)
               /\ HasCharOf(ret.password, symbols))

\* C13 witness: validatePassword accepted "xp4.2Z;x", a string that
\* generatePassword(8, true, true, true, true) returns.
C13_Witness ==
  /\ AllClassesPassword
  /\ ret.password = <<120, 112, 52, 46, 50, 90, 59, 120>>
  /\ ret.value

\* C14 as stated: XOR-encoding "Hola Mundo" with the key "clave" yields the
\* ciphertext whose hex dump is "2b 0a 27 21 44 0e 2a 03 0b 0b", and encoding
\* the ciphertext again with the same key yields "Hola Mundo".
C14_XorDemoHex ==
  ret.op = "testXorEncoder" =>
     /\ ret.hex = <<50, 98, 32, 48, 97, 32, 50, 55, 32, 50, 49, 32, 52, 52,
                 32, 48, 101, 32, 50, 97, 32, 48, 51, 32, 48, 98, 32, 48,
                 98, 32>>
     /\ ret.descifrado = ret.mensaje

\* C14, amended: XOR-encoding "Hola Mundo" with the key "clave" yields the
\* ciphertext whose hex dump is "2b 03 0d 17 45 2e 19 0f 12 0a " (every byte
\* followed by a space), and encoding the ciphertext again with the same key
\* yields "Hola Mundo".
C14_XorDemoHexActual ==
  ret.op = "testXorEncoder" =>
     /\ ret.hex = <<50, 98, 32, 48, 51, 32, 48, 100, 32, 49, 55, 32, 52, 53,
                 32, 50, 101, 32, 49, 57, 32, 48, 102, 32, 49, 50, 32, 48,
                 97, 32>>
     /\ ret.descifrado = ret.mensaje

\* C14 witness: the demo ran on "Hola Mundo" and "clave" and its ciphertext
\* differs from the message.
C14_Witness ==
  /\ ret.op = "testXorEncoder"
  /\ Len(ret.mensaje) = 10
  /\ Len(ret.clave) = 5
  /\ ret.cifrado # ret.mensaje
  /\ ret.cifrado[2] = 3

\* "Limon!"
LimonRawKey == <<76, 105, 109, 111, 110, 33>>

\* encode("Ataque al amanecer.") returned on an object built from "Limon!".
LimonEncoded ==
  /\ ret.op = "Vigenere.encode"
  /\ vig.key = normalizeKey(LimonRawKey)
  /\ ret.text = VigMensaje

\* C15 as stated: the raw key "Limon!" normalizes to "LIMON"; with it,
\* encode("Ataque al amanecer.") returns "Lhfdsp lw lymzqrpc." and decode of
\* that ciphertext returns "Ataque al amanecer.".
C15_LimonExample ==
  LimonEncoded =>
     /\ vig.key = <<76, 73, 77, 79, 78>>
     /\ ret.value = <<76, 104, 102, 100, 115, 112, 32, 108, 119, 32, 108,
                   121, 109, 122, 113, 114, 112, 99, 46>>
     /\ Vigenere_decode(vig.key, ret.value) = VigMensaje

\* C15, amended: the raw key "Limon!" normalizes to "LIMON"; with it,
\* encode("Ataque al amanecer.") returns "Lbmehp ix ozlvqqrc." and decode of
\* that ciphertext returns "Ataque al amanecer.".
C15_LimonExampleActual ==
  LimonEncoded =>
     /\ vig.key = <<76, 73, 77, 79, 78>>
     /\ ret.value = <<76, 98, 109, 101, 104, 112, 32, 105, 120, 32, 111, 122,
                   108, 118, 113, 113, 114, 99, 46>>
     /\ Vigenere_decode(vig.key, ret.value) = VigMensaje

\* C15 witness: the example was encoded; letters changed, the spaces and
\* the full stop stayed.
C15_Witness ==
  /\ LimonEncoded
  /\ ret.status = "ok"
  /\ ret.value[2] # ret.text[2]
  /\ ret.value[7] = 32
  /\ ret.value[19] = 46

\* The character the rotation rule gives for c under the shift k: letters
\* by k mod 26 within their case, digits by k mod 10, the rest unchanged.
Rotated(c, k) ==
  IF IsUpper(c) THEN 65 + (((c - 65) + (k % 26)) % 26)
  ELSE IF IsLower(c) THEN 97 + (((c - 97) + (k % 26)) % 26)
  ELSE IF c >= 48 /\ c <= 57 THEN 48 + (((c - 48) + (k % 10)) % 10)
  ELSE c

\* C16: for every text and every shift k >= 0, encode returns a string of
\* the same length in which every upper-case letter is rotated by k mod 26
\* within A-Z, every lower-case letter by k mod 26 within a-z, every digit
\* by k mod 10 within 0-9 and every other character is unchanged; so
\* encode("Hola Mundo", 3) = "Krod Pxqgr" and encode("abc123", 5) = "fgh678".
C16_CesarEncode ==
  (ret.op = "Cesar.encode" /\ ret.k >= 0) =>
     /\ ret.status = "ok"
     /\ Len(ret.value) = Len(ret.texto)
     /\ \A i \in 1..Len(ret.texto) : ret.value[i] = Rotated(ret.texto[i], ret.k)
     /\ (ret.texto = CesarHola /\ ret.k = 3)
          => ret.value = <<75, 114, 111, 100, 32, 80, 120, 113, 103, 114>>
     /\ (ret.texto = CesarAbc /\ ret.k = 5)
          => ret.value = <<102, 103, 104, 54, 55, 56>>

\* encode was called on a single ASCII digit with a shift k >= 0.
DigitEncoded ==
  /\ ret.op = "Cesar.encode"
  /\ ret.k >= 0
  /\ Len(ret.texto) = 1
  /\ ret.texto[1] >= 48 /\ ret.texto[1] <= 57

\* C17 as stated: for every shift k >= 0 and every ASCII digit d,
\* decode(encode(d, k), k) differs from d.
C17_DigitsNeverRecovered ==
  (DigitEncoded /\ ret.status # "crash") =>
     Cesar_decode(ret.value, ret.k) # ret.texto

\* C17, amended: for every shift k >= 0 and every ASCII digit d,
\* decode(encode(d, k), k) is d exactly when floor(k / 26) mod 5 = 4 and
\* d - '0' + k does not overflow int; for every other k it differs from d
\* (or encode does not return).
C17_DigitsRecoveredIff ==
  DigitEncoded =>
     ((ret.status # "crash" /\ Cesar_decode(ret.value, ret.k) = ret.texto)
        <=> /\ (ret.k \div 26) % 5 = 4
            /\ ~AddOverflows(ret.texto[1] - 48, ret.k))

\* C17 witness: "9" encoded with k = 104 = 4 * 26 became "3", and decode
\* with k = 104 shifts it by 26 back to "9".
C17_Witness ==
  /\ DigitEncoded
  /\ ret.texto = <<57>>
  /\ ret.k = 104
  /\ ret.value = <<51>>
  /\ Cesar_decode(ret.value, ret.k) = <<57>>

\* The reference of DES-Lite encode, on words written as tuples of bits
\* (element n is bit n - 1).  Subkey i is (key >> i) & (2^48 - 1).
Ref_Subkey(key, i) == SubSeq(key, i + 1, i + 48)

\* Expand: out[i] = R[32 - EXPANSION_TABLE[i]], i in 0..47.
Ref_Expand(R) ==
  AsTuple([n \in 1..48 |-> R[(32 - EXPANSION_TABLE[n]) + 1]])

\* The four bits of v, most significant first.
Ref_Nibble(v) == <<(v \div 8) % 2, (v \div 4) % 2, (v \div 2) % 2, v % 2>>

\* The S-box output of the 6-bit group g = <<bit[6i], .., bit[6i+5]>>.
Ref_Group(g) ==
  LET row == 2 * g[1] + g[6]
      col == 8 * g[2] + 4 * g[3] + 2 * g[4] + g[5]
  IN Ref_Nibble(SBOX[(row % 4) + 1][(col % 16) + 1])

\* Substitute: the eight groups in order, four output bits each.
Ref_Substitute(X) ==
  Ref_Group(SubSeq(X, 1, 6)) \o Ref_Group(SubSeq(X, 7, 12))
    \o Ref_Group(SubSeq(X, 13, 18)) \o Ref_Group(SubSeq(X, 19, 24))
    \o Ref_Group(SubSeq(X, 25, 30)) \o Ref_Group(SubSeq(X, 31, 36))
    \o Ref_Group(SubSeq(X, 37, 42)) \o Ref_Group(SubSeq(X, 43, 48))

\* P: out[i] = X[32 - P_TABLE[i]], i in 0..31.
Ref_P(X) == AsTuple([n \in 1..32 |-> X[(32 - P_TABLE[n]) + 1]])

Ref_Feistel(R, sk) == Ref_P(Ref_Substitute(XorBits(Ref_Expand(R), sk)))

\* <<L_r, R_r>>: L_0 the high and R_0 the low 32 bits of the block,
\* L_{r+1} = R_r, R_{r+1} = L_r XOR Feistel(R_r, subkey[r]).
RECURSIVE Ref_Halves(_, _, _)
Ref_Halves(r, key, block) ==
  IF r = 0 THEN <<SubSeq(block, 33, 64), SubSeq(block, 1, 32)>>
  ELSE LET prev == Ref_Halves(r - 1, key, block)
       IN <<prev[2],
            XorBits(prev[1], Ref_Feistel(prev[2], Ref_Subkey(key, r - 1)))>>

\* (R_final << 32) | L_final: the low 32 bits are L_final.
Ref_Encode(key, block) ==
  LET fin == Ref_Halves(16, key, block)
  IN fin[1] \o fin[2]

\* Every index the code forms into a bitset or a table is inside it:
\* halfBlock[32 - EXPANSION_TABLE[i]], input[i * 6 + 5], output[i * 4 + j],
\* input[32 - P_TABLE[i]], key bit i + 47 of the subkey schedule and
\* subkeys[round].
DES_IndicesInBounds ==
  /\ Len(EXPANSION_TABLE) = 48 /\ Len(P_TABLE) = 32
  /\ Len(SBOX) = 4 /\ \A row \in 1..4 : Len(SBOX[row]) = 16
  /\ \A i \in 0..47 : (32 - EXPANSION_TABLE[i + 1]) \in 0..31
  /\ \A i \in 0..31 : (32 - P_TABLE[i + 1]) \in 0..31
  /\ \A i \in 0..7 : (i * 6 + 5) \in 0..47 /\ (i * 4 + 3) \in 0..31
  /\ \A row \in 1..4 : \A col \in 1..16 : SBOX[row][col] \in 0..15
  /\ \A i \in 0..15 : (i + 47) \in 0..63
  /\ Len(des.subkeys) >= 16

\* C18: for every 64-bit key and block, encode returns what the reference
\* computes (subkey[i] = (key >> i) & (2^48 - 1); L_0 high and R_0 low half;
\* sixteen rounds L_{r+1} = R_r, R_{r+1} = L_r XOR Feistel(R_r, subkey[r]);
\* Feistel = P(Substitute(Expand(R) XOR sk)); result (R_final << 32) |
\* L_final; identity initial and final permutation), and every table index
\* used by Expand, Substitute and P is within bounds.
C18_EncodeIsReference ==
  DESEncoded =>
     /\ ret.value = Ref_Encode(des.key, ret.block)
     /\ DES_IndicesInBounds

\* C18 witness: key 0x133457799BBCDFF1, block 0x123456789ABCDEF1 gave the
\* ciphertext 0xEDCCA7E61C33B3B4.
C18_Witness ==
  /\ DESEncoded
  /\ des.key = HexBits(<<1,3,3,4,5,7,7,9,9,11,11,12,13,15,15,1>>)
  /\ ret.block = HexBits(<<1,2,3,4,5,6,7,8,9,10,11,12,13,14,15,1>>)
  /\ ret.value = HexBits(<<14,13,12,12,10,7,14,6,1,12,3,3,11,3,11,4>>)

\* How many letters of texto, either case, have the alphabet index i.
LetterCount(texto, i) ==
  Len(SelectSeq(texto, LAMBDA c : IsAlpha(c) /\ ToUpper(c) = 65 + i))

\* The most frequent letter index, the lowest one on ties.
MostFrequent(texto) ==
  CHOOSE i \in 0..25 :
     /\ \A j \in 0..25 : LetterCount(texto, j) <= LetterCount(texto, i)
     /\ \A j \in 0..(i - 1) : LetterCount(texto, j) < LetterCount(texto, i)

\* The n-th of the ten candidate keys.
Candidate(texto, n) ==
  (((MostFrequent(texto) - (letrasEsp[n] - 97)) + 26) % 26)

\* The number of occurrences of w in s, overlapping ones included.
Occurrences(s, w) ==
  Cardinality({p \in 1..(Len(s) - Len(w) + 1) :
                 SubSeq(s, p, p + Len(w) - 1) = w})

\* The score that counts every occurrence of every word.
OccurrenceScore(s) ==
  Cardinality({wp \in (1..Len(comunes)) \X (1..Len(s)) :
     /\ wp[2] + Len(comunes[wp[1]]) - 1 <= Len(s)
     /\ SubSeq(s, wp[2], wp[2] + Len(comunes[wp[1]]) - 1) = comunes[wp[1]]})

\* The score that counts the words that occur at least once.
PresenceScore(s) ==
  Cardinality({n \in 1..Len(comunes) : Occurrences(s, comunes[n]) > 0})

\* key is the first of the ten candidates whose decoding has the highest
\* score.
FirstBestCandidate(key, texto, Score(_)) ==
  \E n \in 1..10 :
     /\ key = Candidate(texto, n)
     /\ \A m \in 1..10 :
          Score(Cesar_decode(texto, Candidate(texto, m)))
            <= Score(Cesar_decode(texto, Candidate(texto, n)))
     /\ \A m \in 1..(n - 1) :
          Score(Cesar_decode(texto, Candidate(texto, m)))
            < Score(Cesar_decode(texto, Candidate(texto, n)))

\* C19 as stated: evaluatePossibleKey returns, among the ten candidates
\* (maxIdx - (ref - 'a') + 26) mod 26 for ref in e, a, o, s, r, n, i, d, l,
\* c (maxIdx the most frequent case-folded letter, lowest index on ties),
\* the candidate whose decoding has the highest score, the score counting
\* every occurrence (overlaps allowed) of el, de, la, que, en, y, los, se;
\* ties go to the first candidate; the result is in 0..25.
C19_BestByOccurrences ==
  ret.op = "Cesar.evaluatePossibleKey" =>
     /\ FirstBestCandidate(ret.value, ret.texto, OccurrenceScore)
     /\ ret.value \in 0..25

\* C19, amended: the same, the score of a decoding being the number of the
\* eight words that occur in it at least once.
C19_BestByPresence ==
  ret.op = "Cesar.evaluatePossibleKey" =>
     /\ FirstBestCandidate(ret.value, ret.texto, PresenceScore)
     /\ ret.value \in 0..25

\* C19 witness: for "Ipmb" the key 1 was returned; it is not the first
\* candidate, and its decoding "Hola" holds the word "la".
C19_Witness ==
  /\ ret.op = "Cesar.evaluatePossibleKey"
  /\ ret.texto = <<73, 112, 109, 98>>
  /\ ret.value = 1
  /\ ret.value # Candidate(ret.texto, 1)
  /\ PresenceScore(Cesar_decode(ret.texto, ret.value)) = 1

\* The upper-case keys of the lengths 1..maxLen.
BreakKeys(maxLen) == UNION { [1..L -> 65..90] : L \in 1..maxLen }

\* The fitness of the decryption of text under key.
KeyScore(text, key) == fitness(Vigenere_decode(key, text))

\* k1 comes before k2 in the enumeration: shorter keys first, keys of one
\* length in lexicographic order.
EnumeratedBefore(k1, k2) ==
  \/ Len(k1) < Len(k2)
  \/ /\ Len(k1) = Len(k2)
     /\ \E i \in 1..Len(k1) :
          /\ k1[i] < k2[i]
          /\ \A j \in 1..(i - 1) : k1[j] = k2[j]

\* C20: for every text and every maxLen >= 1, breakEncode(text, maxLen)
\* returns a key of length 1..maxLen whose decryption has the maximum
\* fitness over all upper-case keys of those lengths; among keys of equal
\* fitness it is the first in enumeration order (shorter keys first, then
\* lexicographic), so it is "A" whenever no key scores above zero.
C20_BreakReturnsFirstBest ==
  (ret.op = "Vigenere.breakEncode" /\ ret.maxKeyLenght >= 1) =>
     LET top == KeyScore(ret.text, ret.value)
     IN /\ ret.value \in BreakKeys(ret.maxKeyLenght)
        /\ \A key \in BreakKeys(ret.maxKeyLenght) :
             /\ KeyScore(ret.text, key) <= top
             /\ EnumeratedBefore(key, ret.value)
                  => KeyScore(ret.text, key) < top
        /\ top = 0 => ret.value = <<65>>

\* C20 witness: for " EI " and maxLen = 2 no one-letter key scores, and the
\* first two-letter key that does, "AV" (decryption " EN "), was returned.
C20_Witness ==
  /\ ret.op = "Vigenere.breakEncode"
  /\ ret.text = <<32, 69, 73, 32>>
  /\ ret.maxKeyLenght = 2
  /\ ret.value = <<65, 86>>
  /\ KeyScore(ret.text, ret.value) = 4
  /\ \A c \in 65..90 : KeyScore(ret.text, <<c>>) = 0

\* The upper-cased copy of text with a space before and after it.
FoldedCopy(text) ==
  <<32>> \o AsTuple([i \in 1..Len(text) |-> ToUpper(text[i])]) \o <<32>>

\* C21: fitness is case-insensitive and treats both ends of the text as word
\* boundaries: the score of a text is the score of its upper-cased copy
\* wrapped in spaces (so "de la" scores what " DE LA " scores).
C21_FitnessFoldsCase ==
  ret.op = "Vigenere.fitness" => ret.value = fitness(FoldedCopy(ret.text))

\* The key set of each attack: every one-byte key, every two-byte key, the
\* thirteen keys of the dictionary.
AttackKeySet(op) ==
  IF op = "XOR.bruteForce_1Byte" THEN { <<b>> : b \in 0..255 }
  ELSE IF op = "XOR.bruteForce_2Byte"
       THEN { <<b1, b2>> : b1 \in 0..255, b2 \in 0..255 }
       ELSE { clavesComunes[k] : k \in 1..Len(clavesComunes) }

\* std::isprint in the "C" locale, for every byte of p.
Printable(p) == \A i \in 1..Len(p) : p[i] >= 32 /\ p[i] <= 126

\* C22: each XOR brute-force attack ends normally and prints one candidate
\* for exactly those keys of its key set (256 one-byte keys, 65536 two-byte
\* keys, 13 dictionary keys, each applied cyclically) whose decryption
\* satisfies isValidText, the candidate being the key with that decryption;
\* so when the ciphertext is encode(p, k) for a printable p and a key k of
\* the set, the pair (k, p) is printed.
C22_BruteForceEmits ==
  ret.op \in {"XOR.bruteForce_1Byte", "XOR.bruteForce_2Byte",
              "XOR.bruteForceByDictionary"} =>
     LET keys == AttackKeySet(ret.op)
         emitted == { ret.value[i] : i \in DOMAIN ret.value }
         valid == { k \in keys : isValidText(XOR_encode(ret.cifrado, k)) }
     IN /\ ret.status = "ok"
        /\ Cardinality(emitted) = Len(ret.value)
        /\ emitted = { [clave |-> k, text |-> XOR_encode(ret.cifrado, k)] :
                         k \in valid }
        /\ \A k \in valid :
             LET p == XOR_encode(ret.cifrado, k)
             IN (Printable(p) /\ XOR_encode(p, k) = ret.cifrado)
                  => [clave |-> k, text |-> p] \in emitted

\* C22 witness: the two-byte attack on encode("Hi", 0xFF 'c') printed the
\* pair (0xFF 'c', "Hi"), and not the key 0x00 0x00, whose decryption is
\* not readable.
C22_Witness ==
  /\ ret.op = "XOR.bruteForce_2Byte"
  /\ ret.cifrado = XOR_encode(<<72, 105>>, <<255, 99>>)
  /\ \E i \in DOMAIN ret.value :
       ret.value[i] = [clave |-> <<255, 99>>, text |-> <<72, 105>>]
  /\ \A i \in DOMAIN ret.value : ret.value[i].clave # <<0, 0>>

\* C23: the output of the menu driver is, for the selections read so far
\* one after the other, the menu followed by the demo of the selection (1
\* Caesar, 2 XOR, 3 ASCII-binary, 4 DES), by the notice of an invalid
\* option for any other non-zero selection, or by the farewell for 0, and
\* after them nothing but the menu the driver shows while it waits for the
\* next selection; and the loop has ended exactly when the last selection
\* read was the first 0.
C23_MenuFollowsSelections ==
  /\ Len(menu.out) =
       2 * Len(menu.reads) + (IF menu.pc = "read" THEN 1 ELSE 0)
  /\ menu.pc = "read" => menu.out[Len(menu.out)] = "menu"
  /\ \A i \in 1..Len(menu.reads) :
       /\ menu.out[(2 * i) - 1] = "menu"
       /\ menu.out[2 * i] =
            (CASE menu.reads[i] = 1 -> "testCesar"
               [] menu.reads[i] = 2 -> "testXorEncoder"
               [] menu.reads[i] = 3 -> "testAsciiBinary"
               [] menu.reads[i] = 4 -> "testDes"
               [] menu.reads[i] = 0 -> "Saliendo"
               [] OTHER -> "Opcion invalida")
       /\ i < Len(menu.reads) => menu.reads[i] # 0
  /\ menu.pc = "done" <=>
       (menu.reads # <<>> /\ menu.reads[Len(menu.reads)] = 0)

\* The characters of b64 that the table of the object decodes.
DecodedChars(b64) ==
  Cardinality({n \in 1..Len(b64) :
                 b64[n] \in DOMAIN gen.decTable /\ gen.decTable[b64[n]] # 255})

\* C24: for every input, fromBase64 pushes at most 3 bytes for each group
\* of up to 4 decoded characters and nothing for a group without one: the
\* unsigned count chars - 1 never wraps around (so every shift is 0, 8 or
\* 16).
C24_Base64CountNeverWraps ==
  ret.op = "fromBase64" =>
     /\ ret.status # "wrap"
     /\ Len(ret.value) <= 3 * ((DecodedChars(ret.b64) + 3) \div 4)

\* C25: a DES object on which encode can be called holds exactly 16
\* subkeys, subkey i being (key >> i) & (2^48 - 1), after any sequence of
\* constructions and generateSubkeys calls; so encode reads no subkey past
\* the end of the list and its result is the reference for key and block.
C25_SixteenSubkeys ==
  /\ des.state = "live" =>
       /\ Len(des.subkeys) = 16
       /\ \A i \in 0..15 : des.subkeys[i + 1] = Ref_Subkey(des.key, i)
  /\ ret.op = "DES.encode" =>
       /\ ret.status = "ok"
       /\ ret.value = Ref_Encode(des.key, ret.block)

====
